---- MODULE Spec2Model ----
(***************************************************************************)
(* A model of the differential-expression core of the gene prioritization  *)
(* pipeline (src/src/omics.py): the sample classifier, the gene filter,    *)
(* the Benjamini-Hochberg corrector and the run_omics driver, with the     *)
(* gene-symbol lookup it calls (src/src/gene_mapping.py).                  *)
(*                                                                         *)
(* Real numbers are modelled exactly, as integer numerators over a common  *)
(* denominator; floating-point rounding is not modelled.  A missing value  *)
(* (numpy's NaN) is the distinguished value NaN.                           *)
(***************************************************************************)
EXTENDS Integers, Sequences, FiniteSets, TLC

VARIABLES
    bh_pc,      \* benjamini_hochberg: "idle", "call" (called, not returned), "ret"
    p_values,   \* benjamini_hochberg: the argument, a sequence of numerators over PDen (or NaN)
    fdr,        \* benjamini_hochberg: the returned array, numerators over One (or NaN)
    lbl_pc,     \* parse_tcga_sample_labels: "idle", "call", "ret" or "raised"
    sample_ids, \* parse_tcga_sample_labels: the argument, a sequence of strings
    records,    \* parse_tcga_sample_labels: the rows of the returned frame
    om_pc,      \* run_omics: the statement reached ("idle" outside a run)
    config,     \* run_omics: the configuration file ([exists |-> FALSE] when absent)
    counts_file,      \* the file at counts_path: [exists, columns, index, values]
    symbol_service,   \* the gene-symbol lookup: [cache_exists, cache, api, answer]
    evidence_file,    \* outputs/omics_evidence.csv: [exists, written, rows]
    candidates_file,  \* the candidate file: [exists, written, rows]
    outputs_dir,      \* whether outputs_dir exists
    counts_df,        \* run_omics: the matrix read, [columns, index, values]
    sample_labels,    \* run_omics: the label frame's rows
    tumor_samples,    \* run_omics: identifiers labelled tumor, in column order
    normal_samples,   \* run_omics: identifiers labelled normal, in column order
    counts_filtered,  \* run_omics: the matrix after the gene filter
    results,          \* run_omics: the per-gene records appended so far
    results_df,       \* run_omics: the result frame's rows
    ttest_calls,      \* run_omics: the genes stats.ttest_ind was called for, in call order
    df_passed,        \* the frame object given to map_ensembl_to_symbols, as the call left it
    error,            \* run_omics: the exception that ended the run, or NoError
    sc_pc,            \* run_scoring: the statement reached ("idle" outside a run)
    lit_file,         \* outputs/lit_evidence.csv: [exists, written, rows]
    pathway_file,     \* outputs/pathway_evidence.csv: [exists, written, rows]
    ranked_file,      \* outputs/ranked_candidates.csv: [exists, written, rows]
    sc_error,         \* run_scoring: the exception that ended the run, or NoError
    rt_pc,            \* _request_with_retry: "idle", "request", "sleep", "returned", "raised"
    method,           \* _request_with_retry: the method argument
    attempt,          \* _request_with_retry: the loop variable
    outcomes,         \* what the request does at each attempt
    slept,            \* the delays time.sleep was called with, in order
    requests,         \* the requests sent, by verb, in order
    response,         \* _request_with_retry: the value returned (a response, or None)
    data_cache,       \* biomarkers._data_cache: key -> "unset" (no such key), "frame", "empty"
    disk,             \* the web app's outputs directory: file -> "absent", "readable", "unreadable"
    http_status       \* the status of the last answer of the web app, 0 before any

bhVars == <<bh_pc, p_values, fdr>>
lblVars == <<lbl_pc, sample_ids, records>>
envVars == <<config, counts_file, symbol_service>>
fileVars == <<evidence_file, candidates_file, outputs_dir>>
runVars == <<counts_df, sample_labels, tumor_samples, normal_samples, counts_filtered,
             results, results_df, ttest_calls, df_passed>>
omVars == <<om_pc, envVars, fileVars, runVars, error>>
scVars == <<sc_pc, lit_file, pathway_file, ranked_file, sc_error>>
rtVars == <<rt_pc, method, attempt, outcomes, slept, requests, response>>
webVars == <<data_cache, disk, http_status>>
restVars == <<scVars, rtVars, webVars>>
vars == <<bhVars, lblVars, omVars, restVars>>

----------------------------------------------------------------------------
(* Bounds and number representation *)

\* longest p-value array given to benjamini_hochberg
MaxLen == 4
\* p-values are multiples of 1/PDen
PDen == 100
\* the numerators of the p-values tried: 0, 0.01, 0.02, 0.03, 0.5 and 1 when PDen = 100
PNums == {0, 1, 2, 3, PDen \div 2, PDen}

\* longest list of identifiers given to parse_tcga_sample_labels
MaxIds == 3
\* most tumor samples, and most normal samples, of an expression matrix
MaxGroup == 4
\* most genes of an expression matrix
MaxGenes == 2

\* np.nan
NaN == -1

isnan(x) == x = NaN

Min2(a, b) == IF a <= b THEN a ELSE b

SeqsUpTo(S, n) == UNION {[1..k -> S] : k \in 0..n}

RECURSIVE Gcd(_, _)
Gcd(a, b) == IF b = 0 THEN a ELSE Gcd(b, a % b)

RECURSIVE LcmUpTo(_)
LcmUpTo(n) == IF n <= 1 THEN 1 ELSE LET l == LcmUpTo(n - 1) IN (l * n) \div Gcd(l, n)

\* every rank of an array the model corrects divides RankLcm, so p * n / rank is an integer multiple of 1/One
RankLcm == LcmUpTo(IF MaxLen >= MaxGenes THEN MaxLen ELSE MaxGenes)
\* the numerator of 1.0 in the adjusted values
One == PDen * RankLcm

----------------------------------------------------------------------------
(* benjamini_hochberg, src/src/omics.py:59-104 *)

\* the indices selected by a boolean mask, ascending: a[mask]
RECURSIVE MaskIndices(_, _)
MaskIndices(a, i) ==
    IF i > Len(a) THEN <<>>
    ELSE IF ~isnan(a[i]) THEN <<i>> \o MaskIndices(a, i + 1)
    ELSE MaskIndices(a, i + 1)

\* valid_pvals = p_values[valid_mask]
ValidPvals(p) == LET ix == MaskIndices(p, 1) IN [k \in 1..Len(ix) |-> p[ix[k]]]

Perms(n) == {f \in [1..n -> 1..n] : \A i, j \in 1..n : i # j => f[i] # f[j]}

\* np.argsort(v) with the default (unstable) sort: any permutation that puts v in
\* ascending order; the order of equal elements is the sort's choice.
Argsorts(v) ==
    {s \in Perms(Len(v)) : \A k \in 1..(Len(v) - 1) : v[s[k]] <= v[s[k + 1]]}

\* adjusted = sorted_pvals * n_valid / ranks   (numerators over One)
Adjusted(sorted_pvals, n_valid) ==
    [k \in 1..Len(sorted_pvals) |-> sorted_pvals[k] * n_valid * (RankLcm \div k)]

\* np.minimum.accumulate(a[::-1])[::-1]: the running minimum from the right
\* (MutNoAccumulate: the monotonicity step left out)
MutNoAccumulate(a) == a

RECURSIVE SuffixMin(_, _)
SuffixMin(a, k) ==
    IF k = Len(a) THEN a[k] ELSE Min2(a[k], SuffixMin(a, k + 1))

MinimumAccumulateRev(a) == [k \in 1..Len(a) |-> SuffixMin(a, k)]

\* np.minimum(a, 1.0)
CapAtOne(a) == [k \in 1..Len(a) |-> Min2(a[k], One)]

\* the scatter forgotten: the values are left in sorted order
MutUnsortIdentity(adjusted_monotonic, sorted_indices) == adjusted_monotonic

\* unsorted_adjusted[sorted_indices] = adjusted_monotonic
Unsort(adjusted_monotonic, sorted_indices) ==
    [j \in 1..Len(adjusted_monotonic) |->
        adjusted_monotonic[CHOOSE k \in 1..Len(adjusted_monotonic) : sorted_indices[k] = j]]

\* fdr = np.full(n, nan); fdr[valid_mask] = unsorted_adjusted
PlaceBack(p, unsorted_adjusted) ==
    LET ix == MaskIndices(p, 1) IN
    [j \in 1..Len(p) |->
        IF isnan(p[j]) THEN NaN
        ELSE unsorted_adjusted[CHOOSE k \in 1..Len(ix) : ix[k] = j]]

\* n taken from the whole array, missing entries included
MutNValidCountsMissing(p) == Len(p)

\* the count that multiplies the p-values: n_valid = len(valid_pvals)
NValid(p) == Len(ValidPvals(p))

\* line 99 scattering `adjusted` instead of `adjusted_monotonic`
MutBHWithRawAdjusted(p, sorted_indices) ==
    LET valid_pvals == ValidPvals(p)
        sorted_pvals == [k \in 1..Len(valid_pvals) |-> valid_pvals[sorted_indices[k]]]
    IN  PlaceBack(p, Unsort(Adjusted(sorted_pvals, NValid(p)), sorted_indices))

\* the array returned when argsort returns sorted_indices
BHWith(p, sorted_indices) ==
    LET valid_pvals == ValidPvals(p)
        sorted_pvals == [k \in 1..Len(valid_pvals) |-> valid_pvals[sorted_indices[k]]]
        adjusted == Adjusted(sorted_pvals, NValid(p))
        adjusted_monotonic == CapAtOne(MinimumAccumulateRev(adjusted))
    IN  PlaceBack(p, Unsort(adjusted_monotonic, sorted_indices))

\* the arrays benjamini_hochberg(p) can return
benjamini_hochberg(p) ==
    IF Len(p) = 0 THEN {<<>>}
    ELSE IF \A j \in 1..Len(p) : isnan(p[j]) THEN {[j \in 1..Len(p) |-> NaN]}
    ELSE {BHWith(p, s) : s \in Argsorts(ValidPvals(p))}

----------------------------------------------------------------------------
(* parse_tcga_sample_labels, src/src/omics.py:13-56 *)
(* A string is a sequence of one-character strings. *)

Digits == {"0", "1", "2", "3", "4", "5", "6", "7", "8", "9"}
DigitVal(c) ==
    CASE c = "0" -> 0 [] c = "1" -> 1 [] c = "2" -> 2 [] c = "3" -> 3 [] c = "4" -> 4
      [] c = "5" -> 5 [] c = "6" -> 6 [] c = "7" -> 7 [] c = "8" -> 8 [] c = "9" -> 9

\* str.strip() on blanks
RECURSIVE LStrip(_)
LStrip(s) == IF Len(s) > 0 /\ s[1] = " " THEN LStrip(Tail(s)) ELSE s
RECURSIVE RStrip(_)
RStrip(s) == IF Len(s) > 0 /\ s[Len(s)] = " " THEN RStrip(SubSeq(s, 1, Len(s) - 1)) ELSE s

\* the digits of an integer literal: digits, single underscores only between digits
DigitGroups(s) ==
    /\ Len(s) > 0
    /\ s[1] \in Digits /\ s[Len(s)] \in Digits
    /\ \A k \in 1..Len(s) : s[k] \in Digits \cup {"_"}
    /\ \A k \in 1..(Len(s) - 1) : ~(s[k] = "_" /\ s[k + 1] = "_")

RECURSIVE DecimalValue(_, _)
DecimalValue(s, acc) ==
    IF Len(s) = 0 THEN acc
    ELSE IF s[1] = "_" THEN DecimalValue(Tail(s), acc)
    ELSE DecimalValue(Tail(s), 10 * acc + DigitVal(s[1]))

\* Python's int(str): surrounding blanks stripped, an optional sign, then the digits;
\* anything else raises ValueError.
PyInt(s) ==
    LET t == RStrip(LStrip(s))
        signed == Len(t) > 0 /\ t[1] \in {"+", "-"}
        body == IF signed THEN Tail(t) ELSE t
    IN  IF ~DigitGroups(body) THEN [ok |-> FALSE, val |-> 0]
        ELSE [ok |-> TRUE,
              val |-> IF signed /\ t[1] = "-" THEN 0 - DecimalValue(body, 0)
                      ELSE DecimalValue(body, 0)]

\* str.startswith
StartsWith(s, prefix) == Len(s) >= Len(prefix) /\ SubSeq(s, 1, Len(prefix)) = prefix

TCGA == <<"T", "C", "G", "A", "-">>
XX == <<"X", "X">>

\* a barcode: the prefix, the fields up to the code, the code, the rest
Barcode(middle, code, suffix) == TCGA \o middle \o code \o suffix

\* a tumor range that stops at 8
MutGroupOfCodeTumorTo8(code_int) ==
    IF 1 <= code_int /\ code_int <= 8 THEN "tumor"
    ELSE IF 10 <= code_int /\ code_int <= 19 THEN "normal"
    ELSE "other"

\* lines 37-42
GroupOfCode(code_int) ==
    IF 1 <= code_int /\ code_int <= 9 THEN "tumor"
    ELSE IF 10 <= code_int /\ code_int <= 19 THEN "normal"
    ELSE "other"

\* the except clause missing: the ValueError leaves the function
MutValueErrorUncaught(sample_id) ==
    IF Len(sample_id) >= 15 /\ StartsWith(sample_id, TCGA)
    THEN LET sample_type_code == SubSeq(sample_id, 14, 15)
             r == PyInt(sample_type_code)
         IN  IF r.ok
             THEN [raised |-> FALSE, sample_id |-> sample_id,
                   sample_type_code |-> sample_type_code,
                   sample_type_group |-> GroupOfCode(r.val)]
             ELSE [raised |-> TRUE, sample_id |-> sample_id,
                   sample_type_code |-> sample_type_code, sample_type_group |-> "other"]
    ELSE [raised |-> FALSE, sample_id |-> sample_id,
          sample_type_code |-> XX, sample_type_group |-> "other"]

\* one pass of the loop body, lines 32-54: the record appended for sample_id
\* (raised: an exception leaves the loop body)
LabelRecord(sample_id) ==
    IF Len(sample_id) >= 15 /\ StartsWith(sample_id, TCGA)
    THEN LET sample_type_code == SubSeq(sample_id, 14, 15)
             r == PyInt(sample_type_code)
         IN  IF r.ok
             THEN [raised |-> FALSE, sample_id |-> sample_id,
                   sample_type_code |-> sample_type_code,
                   sample_type_group |-> GroupOfCode(r.val)]
             ELSE [raised |-> FALSE, sample_id |-> sample_id,
                   sample_type_code |-> XX, sample_type_group |-> "other"]
    ELSE [raised |-> FALSE, sample_id |-> sample_id,
          sample_type_code |-> XX, sample_type_group |-> "other"]

Row(rec) ==
    [sample_id |-> rec.sample_id, sample_type_code |-> rec.sample_type_code,
     sample_type_group |-> rec.sample_type_group]

\* the loop of lines 30-56: [raised, records]
RECURSIVE ParseLoop(_, _, _)
ParseLoop(ids, i, acc) ==
    IF i > Len(ids) THEN [raised |-> FALSE, records |-> acc]
    ELSE LET rec == LabelRecord(ids[i])
         IN  IF rec.raised THEN [raised |-> TRUE, records |-> acc]
             ELSE ParseLoop(ids, i + 1, Append(acc, Row(rec)))

parse_tcga_sample_labels(ids) == ParseLoop(ids, 1, <<>>)

----------------------------------------------------------------------------
(* run_omics, src/src/omics.py:107-327: the statements up to the gene filter *)

NoError == [type |-> "none", what |-> "", group |-> "", count |-> 0]
FileNotFound(what) == [type |-> "FileNotFoundError", what |-> what, group |-> "", count |-> 0]
\* ValueError("Insufficient <group> samples for DE analysis: <count> (need at least 3)")
Insufficient(group, count) ==
    [type |-> "ValueError", what |-> "insufficient samples", group |-> group, count |-> count]
InvalidYaml == [type |-> "ValueError", what |-> "invalid config", group |-> "", count |-> 0]

\* a file that does not exist, and a file left by an earlier run
Absent == [exists |-> FALSE, written |-> FALSE, rows |-> <<>>]
Stale == [exists |-> TRUE, written |-> FALSE, rows |-> <<>>]

\* utils.write_csv: the file holds the frame's rows
WriteCsv(rows) == [exists |-> TRUE, written |-> TRUE, rows |-> rows]

\* the fewest samples a compared group may have
MinSamples == 3
\* keep genes where mean >= 1.0 ...
MinMean == 1
\* ... or nonzero in >= 20% of the samples: 0.20 = 1 / MinNonzeroInverse
MinNonzeroInverse == 5

RECURSIVE SelectSeq2(_, _, _)
\* the elements of s at the positions whose mask entry is TRUE, in order
SelectSeq2(s, mask, i) ==
    IF i > Len(s) THEN <<>>
    ELSE IF mask[i] THEN <<s[i]>> \o SelectSeq2(s, mask, i + 1)
    ELSE SelectSeq2(s, mask, i + 1)

\* sample_labels[sample_labels['sample_type_group'] == group]['sample_id'].tolist()
SamplesOfGroup(labels, group) ==
    SelectSeq2([k \in 1..Len(labels) |-> labels[k].sample_id],
               [k \in 1..Len(labels) |-> labels[k].sample_type_group = group], 1)

\* lines 161-165: the exception raised, or NoError
SampleCheck(n_tumor, n_normal) ==
    IF n_tumor < MinSamples THEN Insufficient("tumor", n_tumor)
    ELSE IF n_normal < MinSamples THEN Insufficient("normal", n_normal)
    ELSE NoError

RECURSIVE SumValid(_, _)
\* the sum of the non-missing entries from position i on
SumValid(row, i) ==
    IF i > Len(row) THEN 0
    ELSE (IF isnan(row[i]) THEN 0 ELSE row[i]) + SumValid(row, i + 1)

CountValid(row) == Cardinality({k \in 1..Len(row) : ~isnan(row[k])})

\* counts_df.mean(axis=1) >= num/den: the mean skips missing values, and the mean of
\* a row with none is NaN, which compares False
MeanAtLeast(row, num, den) ==
    CountValid(row) > 0 /\ SumValid(row, 1) * den >= num * CountValid(row)

\* (counts_df > 0).sum(axis=1): NaN > 0 is False
PositiveCount(row) == Cardinality({k \in 1..Len(row) : ~isnan(row[k]) /\ row[k] > 0})

\* keep_mask, lines 178-182; n_samples counts every column
KeepGene(row, n_samples) ==
    \/ MeanAtLeast(row, MinMean, 1)
    \/ PositiveCount(row) * MinNonzeroInverse >= n_samples

\* counts_df[keep_mask]
FilterGenes(df) ==
    LET n_samples == Len(df.columns)
        keep_mask == [g \in 1..Len(df.index) |-> KeepGene(df.values[g], n_samples)]
    IN  [columns |-> df.columns,
         index |-> SelectSeq2(df.index, keep_mask, 1),
         values |-> SelectSeq2(df.values, keep_mask, 1)]

NoFrame == [columns |-> <<>>, index |-> <<>>, values |-> <<>>]

\* lines 124-126: load_config and ensure_dirs
OmLoadConfig ==
    /\ om_pc = "start"
    /\ IF config.status = "missing"
       THEN om_pc' = "failed" /\ error' = FileNotFound("config") /\ UNCHANGED outputs_dir
       ELSE IF config.status = "invalid"
       THEN om_pc' = "failed" /\ error' = InvalidYaml /\ UNCHANGED outputs_dir
       ELSE om_pc' = "configured" /\ outputs_dir' = TRUE /\ UNCHANGED error
    /\ UNCHANGED <<envVars, evidence_file, candidates_file, runVars>>

\* the evidence file opened for writing before the input is looked at
MutOmReadCountsCreatesOutput ==
    /\ om_pc = "configured"
    /\ evidence_file' = WriteCsv(<<>>)
    /\ IF ~counts_file.exists
       THEN om_pc' = "failed" /\ error' = FileNotFound("counts") /\ UNCHANGED counts_df
       ELSE /\ om_pc' = "loaded"
            /\ counts_df' = [columns |-> counts_file.columns, index |-> counts_file.index,
                             values |-> counts_file.values]
            /\ UNCHANGED error
    /\ UNCHANGED <<envVars, candidates_file, outputs_dir, sample_labels, tumor_samples,
                   normal_samples, counts_filtered, results, results_df, ttest_calls, df_passed>>

\* lines 133-145: the existence check and pd.read_csv
OmReadCounts ==
    /\ om_pc = "configured"
    /\ IF ~counts_file.exists
       THEN om_pc' = "failed" /\ error' = FileNotFound("counts") /\ UNCHANGED counts_df
       ELSE /\ om_pc' = "loaded"
            /\ counts_df' = [columns |-> counts_file.columns, index |-> counts_file.index,
                             values |-> counts_file.values]
            /\ UNCHANGED error
    /\ UNCHANGED <<envVars, fileVars, sample_labels, tumor_samples, normal_samples,
                   counts_filtered, results, results_df, ttest_calls, df_passed>>

\* 'column not found'
KeyError(column) == [type |-> "KeyError", what |-> column, group |-> "", count |-> 0]

\* lines 147-159: the columns are labelled and split.  With no column the label frame
\* is pd.DataFrame([]), which has no sample_type_group column: line 151 raises KeyError
OmParseLabels ==
    /\ om_pc = "loaded"
    /\ LET r == parse_tcga_sample_labels(counts_df.columns)
       IN  IF r.raised
           THEN /\ om_pc' = "failed"
                /\ error' = [type |-> "ValueError", what |-> "int", group |-> "", count |-> 0]
                /\ UNCHANGED <<sample_labels, tumor_samples, normal_samples>>
           ELSE IF r.records = <<>>
           THEN /\ om_pc' = "failed"
                /\ error' = KeyError("sample_type_group")
                /\ UNCHANGED <<sample_labels, tumor_samples, normal_samples>>
           ELSE /\ om_pc' = "labelled"
                /\ sample_labels' = r.records
                /\ tumor_samples' = SamplesOfGroup(r.records, "tumor")
                /\ normal_samples' = SamplesOfGroup(r.records, "normal")
                /\ UNCHANGED error
    /\ UNCHANGED <<envVars, fileVars, counts_df, counts_filtered, results, results_df, ttest_calls, df_passed>>

\* lines 161-165: at least 3 samples in each group
OmCheckSamples ==
    /\ om_pc = "labelled"
    /\ LET e == SampleCheck(Len(tumor_samples), Len(normal_samples))
       IN  IF e # NoError
           THEN om_pc' = "failed" /\ error' = e
           ELSE om_pc' = "checked" /\ UNCHANGED error
    /\ UNCHANGED <<envVars, fileVars, runVars>>

\* lines 173-191: numeric coercion and the gene filter
OmFilterGenes ==
    /\ om_pc = "checked"
    /\ counts_filtered' = FilterGenes(counts_df)
    /\ om_pc' = "filtered"
    /\ UNCHANGED <<envVars, fileVars, counts_df, sample_labels, tumor_samples,
                   normal_samples, results, results_df, ttest_calls, df_passed, error>>

----------------------------------------------------------------------------
(* run_omics: the per-gene tests, the correction and the outputs *)

\* the p-values Welch's test is let to return for a gene it can test (numerators over
\* PDen); which one it returns for given data is not modelled
TTestPs == {1, 5, PDen}

\* a mean, or a difference of means, as a fraction num/den or NaN
Frac(num, den) == [nan |-> FALSE, num |-> num, den |-> den]
NaNFrac == [nan |-> TRUE, num |-> 0, den |-> 1]

\* np.nanmean: the mean of the non-missing values, NaN when there is none
NanMean(vals) ==
    IF CountValid(vals) = 0 THEN NaNFrac ELSE Frac(SumValid(vals, 1), CountValid(vals))

\* a - b on fractions
FracSub(a, b) ==
    IF a.nan \/ b.nan THEN NaNFrac
    ELSE Frac(a.num * b.den - b.num * a.den, a.den * b.den)

Abs(x) == IF x < 0 THEN 0 - x ELSE x

\* the variance never compares equal to 0
MutVarianceNeverZero(vals) == FALSE

\* np.nanvar(vals, ddof=1) == 0: at least two non-missing values, all equal (with
\* fewer the variance is NaN)
ZeroVariance(vals) ==
    /\ CountValid(vals) >= 2
    /\ \A i, j \in 1..Len(vals) : (~isnan(vals[i]) /\ ~isnan(vals[j])) => vals[i] = vals[j]

\* stats.ttest_ind(..., equal_var=False, nan_policy='omit'), lines 221-226: NaN when
\* a group has fewer than two values left, 1.0 when the two means are equal (the
\* statistic is 0), else some p-value; a NaN or an exception becomes 1.0
TTestPValues(tumor_vals, normal_vals) ==
    IF CountValid(tumor_vals) < 2 \/ CountValid(normal_vals) < 2 THEN {PDen}
    ELSE IF FracSub(NanMean(tumor_vals), NanMean(normal_vals)).num = 0 THEN {PDen}
    ELSE TTestPs

\* the test of line 217
BothVariancesZero(tumor_vals, normal_vals) ==
    ZeroVariance(tumor_vals) /\ ZeroVariance(normal_vals)

\* lines 212-226: the p-values the gene may get
PValues(tumor_vals, normal_vals) ==
    IF BothVariancesZero(tumor_vals, normal_vals) THEN {PDen}
    ELSE TTestPValues(tumor_vals, normal_vals)

ColumnOf(df, id) == CHOOSE k \in 1..Len(df.columns) : df.columns[k] = id

\* df[samples].loc[gene].values
ValuesOf(df, g, samples) == [k \in 1..Len(samples) |-> df.values[g][ColumnOf(df, samples[k])]]

\* 'up' for log2fc >= 0
MutGeneRecordUpAtZero(df, g, tumor_vals, normal_vals, p_value) ==
    LET tumor_mean == NanMean(tumor_vals)
        normal_mean == NanMean(normal_vals)
        log2fc == FracSub(tumor_mean, normal_mean)
    IN  [gene |-> df.index[g],
         log2fc |-> log2fc,
         p_value |-> p_value,
         direction |-> IF ~log2fc.nan /\ log2fc.num >= 0 THEN "up" ELSE "down",
         tumor_mean |-> tumor_mean,
         normal_mean |-> normal_mean]

\* lines 200-210 and 228-235: the record of gene number g, given its p-value
GeneRecord(df, g, tumor_vals, normal_vals, p_value) ==
    LET tumor_mean == NanMean(tumor_vals)
        normal_mean == NanMean(normal_vals)
        log2fc == FracSub(tumor_mean, normal_mean)
    IN  [gene |-> df.index[g],
         log2fc |-> log2fc,
         p_value |-> p_value,
         direction |-> IF ~log2fc.nan /\ log2fc.num > 0 THEN "up" ELSE "down",
         tumor_mean |-> tumor_mean,
         normal_mean |-> normal_mean]

\* one pass of the loop of lines 199-235
OmTestGene ==
    /\ om_pc = "filtered"
    /\ Len(results) < Len(counts_filtered.index)
    /\ LET g == Len(results) + 1
           tumor_vals == ValuesOf(counts_filtered, g, tumor_samples)
           normal_vals == ValuesOf(counts_filtered, g, normal_samples)
       IN  /\ \E p_value \in PValues(tumor_vals, normal_vals) :
                  results' = Append(results,
                                    GeneRecord(counts_filtered, g, tumor_vals, normal_vals, p_value))
           /\ ttest_calls' = IF BothVariancesZero(tumor_vals, normal_vals) THEN ttest_calls
                             ELSE Append(ttest_calls, counts_filtered.index[g])
    /\ UNCHANGED <<om_pc, envVars, fileVars, counts_df, sample_labels, tumor_samples,
                   normal_samples, counts_filtered, results_df, df_passed, error>>

\* the correction started as soon as one record exists, on the p-values gathered so far
MutOmApplyFDREarly ==
    /\ om_pc = "filtered"
    /\ Len(results) >= 1
    /\ \E q \in benjamini_hochberg([k \in 1..Len(results) |-> results[k].p_value]) :
           results_df' =
               [k \in 1..Len(results) |->
                   [gene |-> results[k].gene,
                    log2fc |-> results[k].log2fc, p_value |-> results[k].p_value,
                    fdr |-> q[k], direction |-> results[k].direction,
                    tumor_mean |-> results[k].tumor_mean,
                    normal_mean |-> results[k].normal_mean,
                    dataset |-> config.dataset_label]]
    /\ om_pc' = "corrected"
    /\ UNCHANGED <<envVars, fileVars, counts_df, sample_labels, tumor_samples,
                   normal_samples, counts_filtered, results, ttest_calls, df_passed, error>>

\* lines 237-244: the frame is built and corrected; pd.DataFrame([]) has no p_value
\* column, so with no record the lookup raises KeyError
OmApplyFDR ==
    /\ om_pc = "filtered"
    /\ Len(results) = Len(counts_filtered.index)
    /\ IF results = <<>>
       THEN /\ om_pc' = "failed"
            /\ error' = KeyError("p_value")
            /\ UNCHANGED results_df
       ELSE /\ \E q \in benjamini_hochberg([k \in 1..Len(results) |-> results[k].p_value]) :
                  results_df' =
                      [k \in 1..Len(results) |->
                          [gene |-> results[k].gene,
                           log2fc |-> results[k].log2fc, p_value |-> results[k].p_value,
                           fdr |-> q[k], direction |-> results[k].direction,
                           tumor_mean |-> results[k].tumor_mean,
                           normal_mean |-> results[k].normal_mean,
                           dataset |-> config.dataset_label]]
            /\ om_pc' = "corrected"
            /\ UNCHANGED error
    /\ UNCHANGED <<envVars, fileVars, counts_df, sample_labels, tumor_samples,
                   normal_samples, counts_filtered, results, ttest_calls, df_passed>>

----------------------------------------------------------------------------
(* Gene symbols, src/src/gene_mapping.py *)

\* gene_mapping.strip_ensembl_version: the text before the first '.'
RECURSIVE strip_ensembl_version(_)
strip_ensembl_version(ensembl_id) ==
    IF Len(ensembl_id) = 0 \/ ensembl_id[1] = "." THEN <<>>
    ELSE <<ensembl_id[1]>> \o strip_ensembl_version(Tail(ensembl_id))

\* mapping.get(strip_ensembl_version(x), '')
SymbolOf(mapping, x) ==
    LET key == strip_ensembl_version(x)
    IN  IF key \in DOMAIN mapping THEN mapping[key] ELSE <<>>

\* the empty dict
NoSymbols == [id \in {} |-> <<>>]

\* mapping.update(api_mapping)
Update(mapping, api_mapping) ==
    [id \in DOMAIN mapping \cup DOMAIN api_mapping |->
        IF id \in DOMAIN api_mapping THEN api_mapping[id] ELSE mapping[id]]

\* what the request of lines 98-99 may do: the service answers; urlopen raises
\* URLError; the body is not JSON; the wait for the response times out, which
\* urlopen passes on as TimeoutError (socket.timeout), not as URLError
ApiOutcomes == {"answers", "URLError", "JSONDecodeError", "TimeoutError"}

\* fetch_symbols_from_mygene, one batch: [raised, mapping].  The two exceptions of
\* lines 108-113 are caught and leave the mapping empty; any other goes to the caller
fetch_symbols_from_mygene(ensembl_ids, service) ==
    LET unique_ids == {strip_ensembl_version(ensembl_ids[k]) : k \in 1..Len(ensembl_ids)}
    IN  CASE service.api = "answers" ->
                [raised |-> FALSE,
                 mapping |-> [id \in unique_ids \cap DOMAIN service.answer |-> service.answer[id]]]
          [] service.api \in {"URLError", "JSONDecodeError"} ->
                [raised |-> FALSE, mapping |-> NoSymbols]
          [] OTHER -> [raised |-> TRUE, mapping |-> NoSymbols]

\* get_gene_symbols with use_api=True: [raised, mapping, saved]; saved tells whether
\* the cache file was rewritten (line 169)
get_gene_symbols(ensembl_ids, service) ==
    LET cached == IF service.cache_exists THEN service.cache ELSE NoSymbols
        stripped_ids == [k \in 1..Len(ensembl_ids) |-> strip_ensembl_version(ensembl_ids[k])]
        missing_ids == SelectSeq(stripped_ids, LAMBDA id : id \notin DOMAIN cached)
    IN  IF missing_ids = <<>>
        THEN [raised |-> FALSE, mapping |-> cached, saved |-> FALSE]
        ELSE LET api == fetch_symbols_from_mygene(missing_ids, service)
             IN  [raised |-> api.raised,
                  mapping |-> Update(cached, api.mapping),
                  saved |-> ~api.raised /\ DOMAIN api.mapping # {}]

\* the frame with its gene_symbol column set
WithSymbols(df, mapping) ==
    [k \in 1..Len(df) |->
        [f \in DOMAIN df[k] \cup {"gene_symbol"} |->
            IF f = "gene_symbol" THEN SymbolOf(mapping, df[k].gene) ELSE df[k][f]]]

\* the returned frame takes the place of the argument without a copy
MutMapInPlace(df, mapping) ==
    [returned |-> WithSymbols(df, mapping), argument |-> WithSymbols(df, mapping)]

\* map_ensembl_to_symbols, lines 189-198: [returned, argument], argument being the
\* caller's frame after the call; the column is set on a copy
map_ensembl_to_symbols(df, mapping) ==
    [returned |-> WithSymbols(df, mapping), argument |-> df]

NotCalled == [called |-> FALSE, rows |-> <<>>]
Called(rows) == [called |-> TRUE, rows |-> rows]

\* lines 246-261: the gene_symbol column and the column order
OmMapSymbols ==
    /\ om_pc = "corrected"
    /\ IF config.use_api
       THEN LET ensembl_ids == [k \in 1..Len(results_df) |-> results_df[k].gene]
                got == get_gene_symbols(ensembl_ids, symbol_service)
                out == map_ensembl_to_symbols(results_df, got.mapping)
            IN  IF got.raised
                THEN /\ om_pc' = "failed"
                     /\ error' = [type |-> symbol_service.api, what |-> "api",
                                  group |-> "", count |-> 0]
                     /\ df_passed' = Called(results_df)
                     /\ UNCHANGED <<results_df, symbol_service>>
                ELSE /\ om_pc' = "mapped"
                     /\ results_df' = out.returned
                     /\ df_passed' = Called(out.argument)
                     /\ symbol_service' =
                           IF got.saved
                           THEN [symbol_service EXCEPT !.cache_exists = TRUE,
                                                       !.cache = got.mapping]
                           ELSE symbol_service
                     /\ UNCHANGED error
       ELSE /\ om_pc' = "mapped"
            /\ results_df' = WithSymbols(results_df, NoSymbols)
            /\ UNCHANGED <<df_passed, symbol_service, error>>
    /\ UNCHANGED <<config, counts_file, fileVars, counts_df, sample_labels, tumor_samples,
                   normal_samples, counts_filtered, results, ttest_calls>>

----------------------------------------------------------------------------
(* run_omics: the outputs *)

\* the frame left in the order of the genes
MutNotSorted(rows) == {rows}

\* results_df.sort_values('fdr'): the rows in ascending fdr, missing values last; the
\* default sort is not stable, so rows of equal fdr come in any order
SortedByFdr(rows) ==
    {[k \in 1..Len(rows) |-> rows[s[k]]] :
        s \in {t \in Perms(Len(rows)) :
                  \A k \in 1..(Len(rows) - 1) :
                      \/ isnan(rows[t[k + 1]].fdr)
                      \/ (~isnan(rows[t[k]].fdr) /\ rows[t[k]].fdr <= rows[t[k + 1]].fdr)}}

\* lines 263-267: the sort and the evidence file
OmWriteEvidence ==
    /\ om_pc = "mapped"
    /\ \E sorted \in SortedByFdr(results_df) :
          /\ results_df' = sorted
          /\ evidence_file' = WriteCsv(sorted)
    /\ om_pc' = "evidence_written"
    /\ UNCHANGED <<envVars, candidates_file, outputs_dir, counts_df, sample_labels,
                   tumor_samples, normal_samples, counts_filtered, results, ttest_calls,
                   df_passed, error>>

----------------------------------------------------------------------------
(* run_omics: the candidate list, lines 269-287 *)

\* candidates_config.get('top_n', 500)
DefaultTopN == 500
\* candidates_config.get('fdr_threshold', 0.05): 0.05 = 1 / DefaultFdrInverse
DefaultFdrInverse == 20

\* dict.get(key, default) on an optional entry [set, val]
Get(entry, default) == IF entry.set THEN entry.val ELSE default
Unset == [set |-> FALSE, val |-> 0]
Set(val) == [set |-> TRUE, val |-> val]

\* fdr <= threshold
MutAtOrBelowThreshold(q, threshold) == ~isnan(q) /\ q * threshold[2] <= threshold[1] * One

\* fdr < threshold, the threshold a fraction <<num, den>>; NaN < x is False
BelowThreshold(q, threshold) == ~isnan(q) /\ q * threshold[2] < threshold[1] * One

\* results_df[results_df['fdr'] < fdr_threshold]
SignificantRows(rows, threshold) ==
    SelectSeq2(rows, [k \in 1..Len(rows) |-> BelowThreshold(rows[k].fdr, threshold)], 1)

\* de_signal = |log2fc| * -log10(fdr + 1e-300).  The logarithm is not computed: for
\* fdr < 1 it is positive and strictly decreasing in fdr, which orders two rows
\* whenever one has both the larger |log2fc| and the smaller fdr; two rows that trade
\* one against the other are left in either order.
AbsGreater(a, b) == Abs(a.num) * b.den > Abs(b.num) * a.den
AbsEqual(a, b) == Abs(a.num) * b.den = Abs(b.num) * a.den
SignalMissing(r) == r.log2fc.nan
SignalGreater(r1, r2) ==
    /\ ~SignalMissing(r1) /\ ~SignalMissing(r2)
    /\ r1.log2fc.num # 0
    /\ \/ r2.log2fc.num = 0
       \/ /\ ~AbsGreater(r2.log2fc, r1.log2fc)
          /\ r1.fdr <= r2.fdr
          /\ AbsGreater(r1.log2fc, r2.log2fc) \/ r1.fdr < r2.fdr
SignalEqual(r1, r2) ==
    /\ ~SignalMissing(r1) /\ ~SignalMissing(r2)
    /\ \/ r1.log2fc.num = 0 /\ r2.log2fc.num = 0
       \/ AbsEqual(r1.log2fc, r2.log2fc) /\ r1.fdr = r2.fdr

\* sig_genes.head(n): the first n rows of the frame
MutHead(rows, n) == {[k \in 1..n |-> rows[k]]}

\* sig_genes.nlargest(n, 'de_signal'): descending de_signal, rows of equal de_signal in
\* the frame's order (keep='first'), rows without a de_signal last
NLargest(rows, n) ==
    {[k \in 1..n |-> rows[s[k]]] :
        s \in {t \in Perms(Len(rows)) :
                  \A k, l \in 1..Len(rows) :
                      k < l =>
                          /\ ~SignalGreater(rows[t[l]], rows[t[k]])
                          /\ SignalEqual(rows[t[k]], rows[t[l]]) => t[k] < t[l]
                          /\ SignalMissing(rows[t[k]]) =>
                                (SignalMissing(rows[t[l]]) /\ t[k] < t[l])}}

\* lines 282-284: the candidate columns and the rank
CandidateRows(candidates) ==
    [k \in 1..Len(candidates) |->
        [gene |-> candidates[k].gene, gene_symbol |-> candidates[k].gene_symbol,
         log2fc |-> candidates[k].log2fc, fdr |-> candidates[k].fdr,
         direction |-> candidates[k].direction, rank |-> k]]

\* lines 269-327: the candidate file; the rest of the function prints
OmWriteCandidates ==
    /\ om_pc = "evidence_written"
    /\ LET top_n == Get(config.candidates.top_n, DefaultTopN)
           fdr_threshold == Get(config.candidates.fdr_threshold, <<1, DefaultFdrInverse>>)
           sig_genes == SignificantRows(results_df, fdr_threshold)
       IN  \E candidates \in NLargest(sig_genes, Min2(top_n, Len(sig_genes))) :
               candidates_file' = WriteCsv(CandidateRows(candidates))
    /\ om_pc' = "done"
    /\ UNCHANGED <<envVars, evidence_file, outputs_dir, runVars, error>>

----------------------------------------------------------------------------
(* The runs of run_omics that are tried *)

BHIdle == bh_pc = "idle" /\ p_values = <<>> /\ fdr = <<>>
LblIdle == lbl_pc = "idle" /\ sample_ids = <<>> /\ records = <<>>
ScIdle ==
    /\ sc_pc = "idle" /\ sc_error = NoError
    /\ lit_file = Absent /\ pathway_file = Absent /\ ranked_file = Absent
RtIdle ==
    /\ rt_pc = "idle" /\ method = "GET" /\ attempt = 0 /\ outcomes = <<>> /\ slept = <<>>
    /\ requests = <<>> /\ response = [none |-> TRUE, attempt |-> 0]
WebIdle ==
    /\ data_cache = [f \in {"ranked", "omics", "pathway"} |-> "unset"] /\ http_status = 0
    /\ disk = [f \in {"ranked", "omics", "pathway"} |-> "absent"]
RestIdle == ScIdle /\ RtIdle /\ WebIdle

DigitChar(d) == CHOOSE c \in Digits : DigitVal(c) = d

\* the identifier of column k: a barcode whose code is that of the column's kind
SampleId(kind, k) ==
    Barcode(<<"A", "A", "-", "3", "8", DigitChar(k \div 10), DigitChar(k % 10), "-">>,
            CASE kind = "T" -> <<"0", "1">>
              [] kind = "N" -> <<"1", "1">>
              [] OTHER -> <<"2", "0">>,
            <<"A">>)

\* gene identifiers, every other one with a version suffix
GeneId(g) ==
    IF g % 2 = 1 THEN <<"E", DigitChar(g), ".", "7">> ELSE <<"E", DigitChar(g)>>

Repeat(x, n) == [k \in 1..n |-> x]

\* column kinds: nT tumor, nN normal and nO other columns
Grouped(nT, nN, nO) == Repeat("T", nT) \o Repeat("N", nN) \o Repeat("O", nO)
Interleaved == <<"T", "N", "O", "T", "N", "T", "N">>

\* the values a cell takes: missing, negative, zero, positive
CellValues == {NaN, 0 - 2, 0, 1, 5}

\* a gene's row: <<first tumor column, other tumor columns, first normal column,
\* other normal columns>>; other columns hold 0
RowProfiles == CellValues \X CellValues \X CellValues \X CellValues
FewProfiles == {<<5, 5, 0, 0>>, <<0, 1, 5, 5>>, <<1, 0, 0, 0>>, <<5, 1, 1, 0>>,
                <<0 - 2, 0 - 2, 0, 0>>, <<NaN, NaN, 1, 1>>, <<1, 1, 1, 1>>}

FirstOf(layout, kind) ==
    CHOOSE k \in 1..Len(layout) :
        layout[k] = kind /\ \A j \in 1..(k - 1) : layout[j] # kind

RowOf(profile, layout) ==
    [k \in 1..Len(layout) |->
        CASE layout[k] = "T" -> IF k = FirstOf(layout, "T") THEN profile[1] ELSE profile[2]
          [] layout[k] = "N" -> IF k = FirstOf(layout, "N") THEN profile[3] ELSE profile[4]
          [] OTHER -> 0]

Matrix(layout, profiles) ==
    [exists |-> TRUE,
     columns |-> [k \in 1..Len(layout) |-> SampleId(layout[k], k)],
     index |-> [g \in 1..Len(profiles) |-> GeneId(g)],
     values |-> [g \in 1..Len(profiles) |-> RowOf(profiles[g], layout)]]

NoCountsFile == [exists |-> FALSE, columns |-> <<>>, index |-> <<>>, values |-> <<>>]

\* the symbols of every gene of the model, keyed by the identifier without version
AllSymbols == [id \in {<<"E", DigitChar(g)>> : g \in 1..(MaxGenes + 1)} |-> <<"S", id[2]>>]
\* the symbol of the first gene only
FirstSymbol == [id \in {<<"E", "1">>} |-> <<"S", "1">>]

Service(cache_exists, cache, api, answer) ==
    [cache_exists |-> cache_exists, cache |-> cache, api |-> api, answer |-> answer]
\* no cache file, and a service that knows every gene
Online == Service(FALSE, NoSymbols, "answers", AllSymbols)
\* no cache file, and each thing the request may do, the service knowing all genes,
\* the first or none; a cache file that knows all genes or the first
Services ==
    {Service(FALSE, NoSymbols, api, AllSymbols) : api \in ApiOutcomes}
    \cup {Service(FALSE, NoSymbols, "answers", known) : known \in {FirstSymbol, NoSymbols}}
    \cup {Service(TRUE, cache, api, AllSymbols) :
              cache \in {AllSymbols, FirstSymbol}, api \in ApiOutcomes}

DefaultConfig ==
    [status |-> "ok", dataset_label |-> "TCGA", use_api |-> TRUE,
     filter |-> [min_mean |-> Unset, min_nonzero_fraction |-> Unset],
     candidates |-> [top_n |-> Unset, fdr_threshold |-> Unset]]

\* a configuration that sets the thresholds: mean >= 2, nonzero fraction >= 1/1,
\* the top candidate only, fdr < 1/2
TunedConfig ==
    [DefaultConfig EXCEPT !.filter = [min_mean |-> Set(2), min_nonzero_fraction |-> Set(<<1, 1>>)],
                          !.candidates = [top_n |-> Set(1), fdr_threshold |-> Set(<<1, 2>>)]]

Matrices(layout) ==
    {Matrix(layout, <<>>)}
    \cup {Matrix(layout, <<p>>) : p \in RowProfiles}
    \cup {Matrix(layout, ps) : ps \in UNION {[1..n -> FewProfiles] : n \in 2..MaxGenes}}

\* every sample count, one matrix
SampleRuns ==
    {[config |-> [DefaultConfig EXCEPT !.status = st, !.use_api = api],
      counts_file |-> cf, symbol_service |-> sym, before |-> old] :
        st \in {"ok", "missing", "invalid"}, api \in BOOLEAN,
        cf \in {NoCountsFile}
               \cup {Matrix(Grouped(nT, nN, nO), <<<<5, 1, 1, 0>>, <<1, 0, 0, 0>>>>) :
                        nT \in 0..MaxGroup, nN \in 0..MaxGroup, nO \in 0..1},
        sym \in {Online, Service(FALSE, NoSymbols, "URLError", AllSymbols)},
        old \in {Absent, Stale}}

\* enough samples, every matrix
GeneRuns ==
    {[config |-> DefaultConfig, counts_file |-> cf, symbol_service |-> Online,
      before |-> Absent] :
        cf \in Matrices(Grouped(MinSamples, MinSamples, 0)) \cup Matrices(Interleaved)
               \cup Matrices(Grouped(5, 5, 0))}

\* the thresholds set in the configuration
TunedRuns ==
    {[config |-> TunedConfig, counts_file |-> Matrix(Grouped(MinSamples, MinSamples, 0), ps),
      symbol_service |-> Online, before |-> Absent] :
        ps \in UNION {[1..n -> FewProfiles] : n \in 1..MaxGenes}}

\* three genes whose |log2fc| are 2, 2/3 and 14/3, the two best candidates wanted
\* among those of fdr < 1/2
TopTwoConfig ==
    [DefaultConfig EXCEPT !.candidates = [top_n |-> Set(2), fdr_threshold |-> Set(<<1, 2>>)]]
TopTwoRuns ==
    {[config |-> TopTwoConfig,
      counts_file |-> Matrix(Grouped(MinSamples, MinSamples, 0),
                             <<<<5, 1, 1, 0>>, <<1, 1, 1, 0>>, <<5, 5, 1, 0>>>>),
      symbol_service |-> Online, before |-> Absent]}

\* every behaviour of the symbol lookup, mapping enabled or not
SymbolRuns ==
    {[config |-> [DefaultConfig EXCEPT !.use_api = api], counts_file |-> cf,
      symbol_service |-> sym, before |-> Absent] :
        api \in BOOLEAN, sym \in Services,
        cf \in {Matrix(Grouped(MinSamples, MinSamples, 0), ps) :
                    ps \in {<<<<5, 1, 1, 0>>, <<0, 1, 5, 5>>>>, <<<<5, 1, 1, 0>>>>}}}

OmIdle ==
    /\ om_pc = "idle"
    /\ config = DefaultConfig /\ counts_file = NoCountsFile /\ symbol_service = Online
    /\ evidence_file = Absent /\ candidates_file = Absent /\ outputs_dir = FALSE
    /\ counts_df = NoFrame /\ sample_labels = <<>>
    /\ tumor_samples = <<>> /\ normal_samples = <<>>
    /\ counts_filtered = NoFrame /\ results = <<>> /\ results_df = <<>>
    /\ ttest_calls = <<>> /\ df_passed = NotCalled
    /\ error = NoError

OmInit ==
    /\ om_pc = "start"
    /\ \E run \in SampleRuns \cup GeneRuns \cup TunedRuns \cup TopTwoRuns \cup SymbolRuns :
          /\ config = run.config
          /\ counts_file = run.counts_file
          /\ symbol_service = run.symbol_service
          /\ evidence_file = run.before
          /\ candidates_file = run.before
    /\ outputs_dir = FALSE
    /\ counts_df = NoFrame /\ sample_labels = <<>>
    /\ tumor_samples = <<>> /\ normal_samples = <<>>
    /\ counts_filtered = NoFrame /\ results = <<>> /\ results_df = <<>>
    /\ ttest_calls = <<>> /\ df_passed = NotCalled
    /\ error = NoError
    /\ BHIdle /\ LblIdle /\ RestIdle

OmNext ==
    \/ (OmLoadConfig /\ UNCHANGED <<bhVars, lblVars, restVars>>)
    \/ (OmReadCounts /\ UNCHANGED <<bhVars, lblVars, restVars>>)
    \/ (OmParseLabels /\ UNCHANGED <<bhVars, lblVars, restVars>>)
    \/ (OmCheckSamples /\ UNCHANGED <<bhVars, lblVars, restVars>>)
    \/ (OmFilterGenes /\ UNCHANGED <<bhVars, lblVars, restVars>>)
    \/ (OmTestGene /\ UNCHANGED <<bhVars, lblVars, restVars>>)
    \/ (OmApplyFDR /\ UNCHANGED <<bhVars, lblVars, restVars>>)
    \/ (OmMapSymbols /\ UNCHANGED <<bhVars, lblVars, restVars>>)
    \/ (OmWriteEvidence /\ UNCHANGED <<bhVars, lblVars, restVars>>)
    \/ (OmWriteCandidates /\ UNCHANGED <<bhVars, lblVars, restVars>>)

SpecOmics == OmInit /\ [][OmNext]_vars

----------------------------------------------------------------------------
(* The corrector on its own: every array of at most MaxLen entries *)

BHInit ==
    /\ bh_pc = "call"
    /\ p_values \in SeqsUpTo(PNums \cup {NaN}, MaxLen)
    /\ fdr = <<>>
    /\ LblIdle /\ OmIdle /\ RestIdle

BHReturn ==
    /\ bh_pc = "call"
    /\ fdr' \in benjamini_hochberg(p_values)
    /\ bh_pc' = "ret"
    /\ UNCHANGED <<p_values, lblVars, omVars, restVars>>

BHNext == BHReturn

SpecBH == BHInit /\ [][BHNext]_vars

----------------------------------------------------------------------------
(* The corrector in binary floating point.  The arrays of benjamini_hochberg are
   float64: every product and every quotient of line 89 is rounded to the nearest
   number with a fixed count of significant bits, ties to the even one.  Here a
   number is an integer count of units of 2^-FloatExpBits, 1.0 is FloatOne, and the
   format keeps FloatBits significant bits (float64 keeps 53). *)

FloatBits == 4
FloatExpBits == 8

RECURSIVE Pow2(_)
Pow2(n) == IF n = 0 THEN 1 ELSE 2 * Pow2(n - 1)

FloatOne == Pow2(FloatExpBits)

\* the exponent of the unit in the last place of num / den
RECURSIVE FloatShift(_, _, _)
FloatShift(num, den, s) ==
    IF num >= den * Pow2(FloatBits + s) THEN FloatShift(num, den, s + 1) ELSE s

\* the float nearest to num / den, round-half-to-even
RoundFloat(num, den) ==
    LET s == FloatShift(num, den, 0)
        unit == den * Pow2(s)
        m == num \div unit
        r == num % unit
        up == 2 * r > unit \/ (2 * r = unit /\ m % 2 = 1)
    IN  (IF up THEN m + 1 ELSE m) * Pow2(s)

\* adjusted = sorted_pvals * n_valid / ranks, evaluated left to right in floats
AdjustedFloat(sorted_pvals, n_valid) ==
    [k \in 1..Len(sorted_pvals) |-> RoundFloat(RoundFloat(sorted_pvals[k] * n_valid, 1), k)]

\* np.minimum(a, 1.0)
CapAtOneFloat(a) == [k \in 1..Len(a) |-> Min2(a[k], FloatOne)]

\* the array returned when argsort returns sorted_indices
BHFloatWith(p, sorted_indices) ==
    LET valid_pvals == ValidPvals(p)
        sorted_pvals == [k \in 1..Len(valid_pvals) |-> valid_pvals[sorted_indices[k]]]
        adjusted == AdjustedFloat(sorted_pvals, NValid(p))
        adjusted_monotonic == CapAtOneFloat(MinimumAccumulateRev(adjusted))
    IN  PlaceBack(p, Unsort(adjusted_monotonic, sorted_indices))

\* the arrays benjamini_hochberg(p) can return for an array p of floats
benjamini_hochberg_float(p) ==
    IF Len(p) = 0 THEN {<<>>}
    ELSE IF \A j \in 1..Len(p) : isnan(p[j]) THEN {[j \in 1..Len(p) |-> NaN]}
    ELSE {BHFloatWith(p, s) : s \in Argsorts(ValidPvals(p))}

\* the floats of the two binades below 1.0, and 1.0
FloatPs == {x \in (FloatOne \div 4)..FloatOne : RoundFloat(x, 1) = x}

FloatArrays == UNION {[1..k -> FloatPs \cup {NaN}] : k \in 0..3}

BHFloatInit ==
    /\ bh_pc = "call_float"
    /\ p_values \in FloatArrays
    /\ fdr = <<>>
    /\ LblIdle /\ OmIdle /\ RestIdle

BHFloatReturn ==
    /\ bh_pc = "call_float"
    /\ fdr' \in benjamini_hochberg_float(p_values)
    /\ bh_pc' = "ret_float"
    /\ UNCHANGED <<p_values, lblVars, omVars, restVars>>

BHFloatNext == BHFloatReturn

SpecBHFloat == BHFloatInit /\ [][BHFloatNext]_vars

----------------------------------------------------------------------------
(* _request_with_retry, src/src/pathway.py:15-52 *)

MAX_RETRIES == 3
RETRY_DELAYS == <<1, 3, 10>>

\* what one httpx.post / httpx.get followed by raise_for_status does: a 2xx response;
\* a response with an error status (HTTPStatusError); no response within the timeout
\* (TimeoutException); no connection (ConnectError); a URL httpx rejects (InvalidURL,
\* which is not an HTTPError)
RequestOutcomes == {"ok", "HTTPStatusError", "TimeoutException", "ConnectError", "InvalidURL"}

\* the exceptions line 39 catches: httpx.HTTPError and its subclasses
Caught(outcome) == outcome \in {"HTTPStatusError", "TimeoutException", "ConnectError"}

Methods == {"POST", "post", "Post", "GET", "get", "PUT"}

\* str.upper()
Upper(m) ==
    CASE m \in {"POST", "post", "Post"} -> "POST"
      [] m \in {"GET", "get"} -> "GET"
      [] OTHER -> m

\* the return value None, and the response of the attempt numbered k
None == [none |-> TRUE, attempt |-> 0]
Response(k) == [none |-> FALSE, attempt |-> k]

\* the loop of line 32, the outcome of each attempt fixed beforehand
RtInit ==
    /\ rt_pc = "request"
    /\ method \in Methods
    /\ attempt = 0
    /\ outcomes \in [1..MAX_RETRIES -> RequestOutcomes]
    /\ slept = <<>>
    /\ requests = <<>>
    /\ response = None
    /\ BHIdle /\ LblIdle /\ OmIdle /\ ScIdle /\ WebIdle

\* line 40 without its test: the delay is slept after the last attempt as well
MutRtRequestAlwaysSleeps ==
    /\ rt_pc = "request"
    /\ attempt < MAX_RETRIES
    /\ requests' = Append(requests, IF Upper(method) = "POST" THEN "POST" ELSE "GET")
    /\ LET outcome == outcomes[attempt + 1]
       IN  IF outcome = "ok"
           THEN rt_pc' = "returned" /\ response' = Response(attempt)
           ELSE IF Caught(outcome)
           THEN rt_pc' = "sleep" /\ UNCHANGED response
           ELSE rt_pc' = "raised" /\ UNCHANGED response
    /\ UNCHANGED <<method, attempt, outcomes, slept>>

\* lines 33-49: one attempt
RtRequest ==
    /\ rt_pc = "request"
    /\ attempt < MAX_RETRIES
    /\ requests' = Append(requests, IF Upper(method) = "POST" THEN "POST" ELSE "GET")
    /\ LET outcome == outcomes[attempt + 1]
       IN  IF outcome = "ok"
           THEN rt_pc' = "returned" /\ response' = Response(attempt)
           ELSE IF Caught(outcome)
           THEN IF attempt < MAX_RETRIES - 1
                THEN rt_pc' = "sleep" /\ UNCHANGED response
                ELSE rt_pc' = "returned" /\ response' = None
           ELSE rt_pc' = "raised" /\ UNCHANGED response
    /\ UNCHANGED <<method, attempt, outcomes, slept>>

\* lines 41-46: the delay of this attempt is slept and the loop goes on
RtSleep ==
    /\ rt_pc = "sleep"
    /\ slept' = Append(slept, RETRY_DELAYS[attempt + 1])
    /\ attempt' = attempt + 1
    /\ rt_pc' = "request"
    /\ UNCHANGED <<method, outcomes, requests, response>>

RtNext ==
    \/ (RtRequest /\ UNCHANGED <<bhVars, lblVars, omVars, scVars, webVars>>)
    \/ (RtSleep /\ UNCHANGED <<bhVars, lblVars, omVars, scVars, webVars>>)

SpecRetry == RtInit /\ [][RtNext]_vars

\* every request is given timeout=30.0 and time.sleep returns: a step that can be
\* taken is taken
SpecRetryFair == SpecRetry /\ WF_vars(RtNext)

----------------------------------------------------------------------------
(* The web API's data cache, src/web-app/api/biomarkers.py *)
(* The endpoints are coroutines without an await: each runs to its end before the
   next request is served. *)

\* the cache keys, which are also the three files of outputs/
CacheKeys == {"ranked", "omics", "pathway"}

\* a file is absent, a CSV pd.read_csv can read, or one it raises on (empty, not
\* text, half written, not permitted)
FileStates == {"absent", "readable", "unreadable"}

\* _data_cache = {}
EmptyCache == [k \in CacheKeys |-> "unset"]

\* the result of a call: the cache it leaves and the status of the exception it
\* raised (0: none)
Outcome(cache, status) == [cache |-> cache, status |-> status]

\* lines 34-37 and 39-42: an evidence file is read if it exists, else the entry is an
\* empty frame
LoadEvidence(cache, files, key) ==
    IF files[key] = "absent" THEN Outcome([cache EXCEPT ![key] = "empty"], 0)
    ELSE IF files[key] = "unreadable" THEN Outcome(cache, 500)
    ELSE Outcome([cache EXCEPT ![key] = "frame"], 0)

\* _load_data, lines 19-50
load_data(cache, files) ==
    IF cache["ranked"] # "unset" THEN Outcome(cache, 0)
    ELSE IF files["ranked"] = "absent" THEN Outcome(cache, 503)
    ELSE IF files["ranked"] = "unreadable" THEN Outcome(cache, 500)
    ELSE LET with_ranked == [cache EXCEPT !["ranked"] = "frame"]
             omics == LoadEvidence(with_ranked, files, "omics")
             pathway == LoadEvidence(omics.cache, files, "pathway")
         IN  IF omics.status # 0 THEN omics ELSE pathway

\* _clear_cache, lines 53-55
clear_cache(cache) == EmptyCache

\* an endpoint that loads the data and then reads the entries `uses`: a missing key
\* is a KeyError, answered with status 500
Serve(uses, statuses) ==
    LET loaded == load_data(data_cache, disk)
    IN  /\ data_cache' = loaded.cache
        /\ IF loaded.status # 0 THEN http_status' = loaded.status
           ELSE IF \E k \in uses : loaded.cache[k] = "unset" THEN http_status' = 500
           ELSE http_status' \in statuses
        /\ UNCHANGED disk

\* GET /candidates, lines 58-116
get_candidates == Serve({"ranked", "omics"}, {200})

\* GET /genes/{gene_id}, lines 119-159: 404 for a gene that is not ranked
get_gene_detail == Serve({"ranked", "omics", "pathway"}, {200, 404})

\* GET /stats, lines 162-201
get_stats == Serve({"ranked", "omics"}, {200})

\* POST /reload, lines 204-209
reload_data ==
    LET loaded == load_data(clear_cache(data_cache), disk)
    IN  /\ data_cache' = loaded.cache
        /\ http_status' = IF loaded.status # 0 THEN loaded.status ELSE 200
        /\ UNCHANGED disk

\* the pipeline, or anything else, creates, rewrites or removes a file of outputs/
DiskChange ==
    /\ \E k \in CacheKeys, st \in FileStates :
          /\ st # disk[k]
          /\ disk' = [disk EXCEPT ![k] = st]
    /\ UNCHANGED <<data_cache, http_status>>

WebInit ==
    /\ data_cache = EmptyCache
    /\ http_status = 0
    /\ disk \in [CacheKeys -> FileStates]
    /\ BHIdle /\ LblIdle /\ OmIdle /\ ScIdle /\ RtIdle

WebNext ==
    \/ (get_candidates /\ UNCHANGED <<bhVars, lblVars, omVars, scVars, rtVars>>)
    \/ (get_gene_detail /\ UNCHANGED <<bhVars, lblVars, omVars, scVars, rtVars>>)
    \/ (get_stats /\ UNCHANGED <<bhVars, lblVars, omVars, scVars, rtVars>>)
    \/ (reload_data /\ UNCHANGED <<bhVars, lblVars, omVars, scVars, rtVars>>)
    \/ (DiskChange /\ UNCHANGED <<bhVars, lblVars, omVars, scVars, rtVars>>)

SpecCache == WebInit /\ [][WebNext]_vars

----------------------------------------------------------------------------
(* run_scoring, src/src/scoring.py:34-178, beside run_omics *)

\* the evidence files run_scoring needs that are not there, in the order of lines
\* 65-71
MissingInputs ==
    (IF evidence_file.exists THEN <<>> ELSE <<"omics_evidence.csv">>)
    \o (IF lit_file.exists THEN <<>> ELSE <<"lit_evidence.csv">>)
    \o (IF pathway_file.exists THEN <<>> ELSE <<"pathway_evidence.csv">>)

\* lines 73-77
MissingUpstream(missing) ==
    [type |-> "FileNotFoundError", what |-> "upstream outputs", group |-> "",
     count |-> Len(missing)]

\* lines 52-54: load_config and ensure_dirs
ScLoadConfig ==
    /\ sc_pc = "start"
    /\ IF config.status = "missing"
       THEN sc_pc' = "failed" /\ sc_error' = FileNotFound("config") /\ UNCHANGED outputs_dir
       ELSE IF config.status = "invalid"
       THEN sc_pc' = "failed" /\ sc_error' = InvalidYaml /\ UNCHANGED outputs_dir
       ELSE sc_pc' = "configured" /\ outputs_dir' = TRUE /\ UNCHANGED sc_error
    /\ UNCHANGED <<lit_file, pathway_file, ranked_file>>

\* the check of the omics evidence file alone
MutScCheckOmicsOnly ==
    /\ sc_pc = "configured"
    /\ IF ~evidence_file.exists
       THEN sc_pc' = "failed" /\ sc_error' = MissingUpstream(<<"omics_evidence.csv">>)
       ELSE sc_pc' = "checked" /\ UNCHANGED sc_error
    /\ UNCHANGED <<outputs_dir, lit_file, pathway_file, ranked_file>>

\* lines 56-77: the three existence checks
ScCheckInputs ==
    /\ sc_pc = "configured"
    /\ IF MissingInputs # <<>>
       THEN sc_pc' = "failed" /\ sc_error' = MissingUpstream(MissingInputs)
       ELSE sc_pc' = "checked" /\ UNCHANGED sc_error
    /\ UNCHANGED <<outputs_dir, lit_file, pathway_file, ranked_file>>

\* the genes of the omics evidence, in its order
EvidenceGenes == [k \in 1..Len(evidence_file.rows) |-> evidence_file.rows[k].gene]

\* lines 79-178: the files are read, the scores computed and the ranked file written.
\* The scores are not computed here: the ranked file holds every gene of the omics
\* evidence once, in some order (descending final_score), and no row when the omics
\* evidence has none.
ScWriteRanked ==
    /\ sc_pc = "checked"
    /\ \E order \in Perms(Len(EvidenceGenes)) :
          ranked_file' = WriteCsv([k \in 1..Len(EvidenceGenes) |-> EvidenceGenes[order[k]]])
    /\ sc_pc' = "done"
    /\ UNCHANGED <<outputs_dir, lit_file, pathway_file, sc_error>>

\* one call of run_omics and one of run_scoring, in either order, the literature and
\* pathway evidence there or not
ScoringRuns ==
    {[config |-> [DefaultConfig EXCEPT !.status = st], counts_file |-> cf,
      symbol_service |-> Online, before |-> old] :
        st \in {"ok", "missing", "invalid"},
        cf \in {NoCountsFile,
                Matrix(Grouped(MinSamples, MinSamples, 0), <<>>),
                Matrix(Grouped(MinSamples, MinSamples, 0), <<<<5, 1, 1, 0>>, <<0, 1, 5, 5>>>>)},
        old \in {Absent, Stale}}

ScInit ==
    /\ om_pc = "start"
    /\ \E run \in ScoringRuns :
          /\ config = run.config
          /\ counts_file = run.counts_file
          /\ symbol_service = run.symbol_service
          /\ evidence_file = run.before
          /\ candidates_file = run.before
    /\ outputs_dir = FALSE
    /\ counts_df = NoFrame /\ sample_labels = <<>>
    /\ tumor_samples = <<>> /\ normal_samples = <<>>
    /\ counts_filtered = NoFrame /\ results = <<>> /\ results_df = <<>>
    /\ ttest_calls = <<>> /\ df_passed = NotCalled
    /\ error = NoError
    /\ sc_pc = "start" /\ sc_error = NoError
    /\ lit_file \in {Absent, Stale}
    /\ pathway_file \in {Absent, Stale}
    /\ ranked_file \in {Absent, Stale}
    /\ BHIdle /\ LblIdle /\ RtIdle /\ WebIdle

\* a function is not called while the other one runs
AtRest(pc) == pc \in {"start", "done", "failed"}

ScStepVars == <<bhVars, lblVars, om_pc, envVars, evidence_file, candidates_file, runVars,
                error, rtVars, webVars>>

ScNext ==
    \/ (AtRest(sc_pc) /\ OmNext)
    \/ (AtRest(om_pc) /\ ScLoadConfig /\ UNCHANGED ScStepVars)
    \/ (AtRest(om_pc) /\ ScCheckInputs /\ UNCHANGED ScStepVars)
    \/ (AtRest(om_pc) /\ ScWriteRanked /\ UNCHANGED ScStepVars)

SpecScoring == ScInit /\ [][ScNext]_vars

----------------------------------------------------------------------------
(* The classifier on its own *)

\* "AA-3877-": the code falls on characters 14-15
Middle8 == <<"A", "A", "-", "3", "8", "7", "7", "-">>
Middles == {Middle8,
            <<"A", "A", "-", "3", "8", "7", "-">>,
            <<"A", "A", "-", "3", "8", "7", "7", "1", "-">>}
Prefixes == {TCGA,
             <<"t", "c", "g", "a", "-">>,
             <<"T", "C", "G", "A", "_">>,
             <<"R", "A", "N", "D", "-">>}
CodeChars == {"0", "1", "2", "9", " ", "+", "-", "A", "_"}
Suffixes == {<<>>, <<"A">>}

RandomId == <<"R", "A", "N", "D", "O", "M", "-", "I", "D">>

\* identifiers with every two-character code, at and off the fixed offset
IdPool ==
    {p \o m \o <<c1, c2>> \o x :
        p \in Prefixes, m \in Middles, c1 \in CodeChars, c2 \in CodeChars, x \in Suffixes}
    \cup {RandomId, <<>>}

\* "TCGA-AA-3877-<code>A"
Id(c1, c2) == Barcode(Middle8, <<c1, c2>>, <<"A">>)

ListPool == {Id("0", "1"), Id("1", "1"), Id("2", "0"), Id("A", "A"), RandomId}

LblInit ==
    /\ lbl_pc = "call"
    /\ sample_ids \in {<<id>> : id \in IdPool} \cup SeqsUpTo(ListPool, MaxIds)
    /\ records = <<>>
    /\ BHIdle /\ OmIdle /\ RestIdle

LblReturn ==
    /\ lbl_pc = "call"
    /\ LET r == parse_tcga_sample_labels(sample_ids)
       IN  /\ lbl_pc' = IF r.raised THEN "raised" ELSE "ret"
           /\ records' = IF r.raised THEN <<>> ELSE r.records
    /\ UNCHANGED <<sample_ids, bhVars, omVars, restVars>>

LblNext == LblReturn

SpecLabels == LblInit /\ [][LblNext]_vars

----------------------------------------------------------------------------
(* The classical Benjamini-Hochberg procedure, stated without sorting *)

ValidIdx(p) == {j \in 1..Len(p) : ~isnan(p[j])}
CountLess(p, v) == Cardinality({j \in ValidIdx(p) : p[j] < v})
CountLeq(p, v) == Cardinality({j \in ValidIdx(p) : p[j] <= v})

\* the ranks (1-based, among the valid entries) the value v occupies
RanksOf(p, v) == (CountLess(p, v) + 1)..CountLeq(p, v)

\* the k-th smallest valid entry
PSorted(p, k) == CHOOSE v \in {p[j] : j \in ValidIdx(p)} : k \in RanksOf(p, v)

SetMin(S) == CHOOSE m \in S : \A x \in S : m <= x

\* min(1, min over k in i..n of p_sorted[k] * n / k), as a numerator over One
BHReference(p, i) ==
    LET n == Cardinality(ValidIdx(p))
    IN  Min2(One, SetMin({PSorted(p, k) * n * (RankLcm \div k) : k \in i..n}))

MatchesReference(p, q) ==
    /\ Len(q) = Len(p)
    /\ \A a \in ValidIdx(p) : \A i \in RanksOf(p, p[a]) : q[a] = BHReference(p, i)

\* C1: for every array of non-missing p-values the value returned at the position of
\* the i-th smallest p-value is min(1, min over k in i..n of p_sorted[k] * n / k);
\* p = [0.01, 0.02, 0.03, 0.50] gives q = [0.04, 0.04, 0.04, 0.50].
C1_MatchesClassicalBH ==
    (bh_pc = "ret" /\ ValidIdx(p_values) = 1..Len(p_values)) =>
        /\ MatchesReference(p_values, fdr)
        /\ p_values = <<1, 2, 3, PDen \div 2>> =>
              fdr = <<4 * RankLcm, 4 * RankLcm, 4 * RankLcm, (PDen \div 2) * RankLcm>>

\* the hand-computed example, with its entries out of order
C1_Witness ==
    /\ bh_pc = "ret"
    /\ p_values = <<PDen \div 2, 3, 1, 2>>
    /\ fdr = <<(PDen \div 2) * RankLcm, 4 * RankLcm, 4 * RankLcm, 4 * RankLcm>>

\* C2: read in order of increasing p-value the adjusted values are non-decreasing:
\* for valid positions a, b with p[a] <= p[b], q[a] <= q[b].
C2_MonotoneInP ==
    bh_pc = "ret" =>
        /\ Len(fdr) = Len(p_values)
        /\ \A a, b \in ValidIdx(p_values) :
              p_values[a] <= p_values[b] => fdr[a] <= fdr[b]

\* a smaller p-value whose raw adjusted value p * n / rank is the larger one
C2_Witness ==
    /\ bh_pc = "ret"
    /\ Len(fdr) = Len(p_values)
    /\ \E a, b \in ValidIdx(p_values) :
          /\ p_values[a] < p_values[b]
          /\ \E i \in RanksOf(p_values, p_values[a]), k \in RanksOf(p_values, p_values[b]) :
                p_values[a] * k > p_values[b] * i
          /\ fdr[a] <= fdr[b]

\* C3: every non-missing adjusted value lies in [0, 1].
C3_WithinUnitInterval ==
    bh_pc = "ret" =>
        \A j \in 1..Len(fdr) : ~isnan(fdr[j]) => (0 <= fdr[j] /\ fdr[j] <= One)

\* an entry whose raw adjusted value p * n / rank exceeds 1
C3_Witness ==
    /\ bh_pc = "ret"
    /\ Len(fdr) = Len(p_values)
    /\ \E a \in ValidIdx(p_values) :
          /\ \E i \in RanksOf(p_values, p_values[a]) :
                p_values[a] * Cardinality(ValidIdx(p_values)) > PDen * i
          /\ 0 <= fdr[a] /\ fdr[a] <= One

\* C4: the output has the input's length, is missing exactly where the input is, and
\* the valid entries are adjusted with n = the number of valid entries; the empty
\* array gives the empty array and an all-missing array an all-missing one.
C4_MissingPassThrough ==
    bh_pc = "ret" =>
        /\ Len(fdr) = Len(p_values)
        /\ \A j \in 1..Len(p_values) : isnan(fdr[j]) <=> isnan(p_values[j])
        /\ MatchesReference(p_values, fdr)

\* missing entries between valid ones: n is 2, not 4
C4_Witness ==
    /\ bh_pc = "ret"
    /\ p_values = <<NaN, 3, NaN, 3>>
    /\ fdr = <<NaN, 3 * RankLcm, NaN, 3 * RankLcm>>

\* C25: the adjusted value is never below the raw p-value, and equal p-values get
\* equal adjusted values wherever they stand in the input: for valid positions a, b,
\* q[a] >= p[a], and p[a] = p[b] implies q[a] = q[b].
C25_NeverBelowRawAndTiesEqual ==
    bh_pc = "ret_float" =>
        /\ Len(fdr) = Len(p_values)
        /\ \A a \in ValidIdx(p_values) : fdr[a] >= p_values[a]
        /\ \A a, b \in ValidIdx(p_values) : p_values[a] = p_values[b] => fdr[a] = fdr[b]

\* the two halves of C25 apart, in floats
C25_TiesEqualInFloats ==
    bh_pc = "ret_float" =>
        \A a, b \in ValidIdx(p_values) : p_values[a] = p_values[b] => fdr[a] = fdr[b]

\* C25 in exact arithmetic (numerators of p over PDen, of q over One)
C25_HoldsInExactArithmetic ==
    bh_pc = "ret" =>
        /\ \A a \in ValidIdx(p_values) : fdr[a] >= p_values[a] * RankLcm
        /\ \A a, b \in ValidIdx(p_values) : p_values[a] = p_values[b] => fdr[a] = fdr[b]

----------------------------------------------------------------------------
(* The sample classifier's contract *)

\* the identifier has the expected prefix and reaches the code's offset
WellFormedId(id) == Len(id) >= 15 /\ \A k \in 1..5 : id[k] = TCGA[k]

\* the code denotes the integer v: two decimal digits, or one digit with a blank
\* beside it or a sign before it (what Python's int accepts in two characters)
Denotes(c1, c2, v) ==
    \/ c1 \in Digits /\ c2 \in Digits /\ v = 10 * DigitVal(c1) + DigitVal(c2)
    \/ c1 \in {" ", "+"} /\ c2 \in Digits /\ v = DigitVal(c2)
    \/ c1 \in Digits /\ c2 = " " /\ v = DigitVal(c1)
    \/ c1 = "-" /\ c2 \in Digits /\ v = 0 - DigitVal(c2)

CodeIn(id, lo, hi) == WellFormedId(id) /\ \E v \in lo..hi : Denotes(id[14], id[15], v)

\* C5: group is 'tumor' exactly when the identifier is well formed and its code is an
\* integer in 1..9, 'normal' exactly when it is an integer in 10..19, 'other' otherwise;
\* "TCGA-AA-3877-01A" is tumor, "TCGA-AA-3877-11A" normal, "RANDOM-ID" other.
C5_GroupByCode ==
    lbl_pc = "ret" =>
        \A i \in 1..Min2(Len(records), Len(sample_ids)) :
            LET id == sample_ids[i]
                g == records[i].sample_type_group
            IN  /\ g \in {"tumor", "normal", "other"}
                /\ (g = "tumor") <=> CodeIn(id, 1, 9)
                /\ (g = "normal") <=> CodeIn(id, 10, 19)
                /\ id = Id("0", "1") => g = "tumor"
                /\ id = Id("1", "1") => g = "normal"
                /\ id = RandomId => g = "other"

\* the three identifiers of the example, classified in one call
C5_Witness ==
    /\ lbl_pc = "ret"
    /\ sample_ids = <<Id("0", "1"), Id("1", "1"), RandomId>>
    /\ Len(records) = 3
    /\ records[1].sample_type_group = "tumor"
    /\ records[2].sample_type_group = "normal"
    /\ records[3].sample_type_group = "other"

\* C6: the call never raises and returns one record per identifier, in input order,
\* each carrying the identifier at its position.
C6_OneRecordPerId ==
    /\ lbl_pc # "raised"
    /\ lbl_pc = "ret" =>
          /\ Len(records) = Len(sample_ids)
          /\ \A i \in 1..Len(sample_ids) : records[i].sample_id = sample_ids[i]

\* a malformed code between two others, and a repeated identifier
C6_Witness ==
    /\ lbl_pc = "ret"
    /\ sample_ids = <<Id("0", "1"), Id("A", "A"), Id("0", "1")>>
    /\ Len(records) = 3
    /\ records[2].sample_id = Id("A", "A")
    /\ records[2].sample_type_group = "other"

----------------------------------------------------------------------------
(* The sample-count guard and the outputs of a failed run *)

\* the columns of the input matrix whose code lies in lo..hi
ColumnsCoded(lo, hi) ==
    {k \in 1..Len(counts_file.columns) : CodeIn(counts_file.columns[k], lo, hi)}
TumorCount == Cardinality(ColumnsCoded(1, 9))
NormalCount == Cardinality(ColumnsCoded(10, 19))

BeforeFilter == {"start", "configured", "loaded", "labelled", "failed"}

InsufficientRaised ==
    error.what = "insufficient samples" =>
        /\ om_pc = "failed"
        /\ error.type = "ValueError"
        /\ \/ error.group = "tumor" /\ error.count = TumorCount
           \/ error.group = "normal" /\ error.count = NormalCount
        /\ error.count < 3
        /\ counts_filtered = NoFrame /\ results = <<>>

\* C7: with fewer than 3 tumor or fewer than 3 normal samples the run fails with the
\* insufficient-samples error, which names a deficient group and its count, before
\* any gene is filtered or tested; with 3 or more in both it is never raised.
C7_InsufficientSamples ==
    /\ InsufficientRaised
    /\ (config.status = "ok" /\ counts_file.exists /\ (TumorCount < 3 \/ NormalCount < 3)) =>
          /\ om_pc \in BeforeFilter
          /\ om_pc = "failed" => error.what = "insufficient samples"
    /\ (TumorCount >= 3 /\ NormalCount >= 3) => error.what # "insufficient samples"

\* the same for the matrices that have at least one sample column
InsufficientWithColumns ==
    /\ InsufficientRaised
    /\ (config.status = "ok" /\ counts_file.exists /\ Len(counts_file.columns) > 0
           /\ (TumorCount < 3 \/ NormalCount < 3)) =>
          /\ om_pc \in BeforeFilter
          /\ om_pc = "failed" => error.what = "insufficient samples"
    /\ (TumorCount >= 3 /\ NormalCount >= 3) => error.what # "insufficient samples"

\* C8: a run that aborts because the matrix file is missing or a group has fewer
\* than 3 samples has written neither the evidence file nor the candidate file.
C8_NoOutputOnAbort ==
    (om_pc = "failed" /\ (~counts_file.exists \/ TumorCount < 3 \/ NormalCount < 3)) =>
        /\ ~evidence_file.written /\ ~candidates_file.written
        /\ evidence_file \in {Absent, Stale} /\ candidates_file \in {Absent, Stale}

\* too few normal samples, the files of an earlier run left as they were
C8_Witness ==
    /\ om_pc = "failed"
    /\ error.what = "insufficient samples" /\ error.group = "normal"
    /\ outputs_dir
    /\ evidence_file = Stale /\ candidates_file = Stale

----------------------------------------------------------------------------
(* The gene filter *)

GeneKept(g) == \E k \in 1..Len(counts_filtered.index) : counts_filtered.index[k] = counts_df.index[g]

\* the number of samples whose value is not zero
NonzeroCount(row) == Cardinality({k \in 1..Len(row) : ~isnan(row[k]) /\ row[k] # 0})

\* rows only: the columns are those of the input, and the kept genes keep their order
RowsOnly ==
    /\ counts_filtered.columns = counts_df.columns
    /\ \A k \in 1..Len(counts_filtered.index) :
          \E g \in 1..Len(counts_df.index) :
              /\ counts_filtered.index[k] = counts_df.index[g]
              /\ counts_filtered.values[k] = counts_df.values[g]
    /\ \A k, l \in 1..Len(counts_filtered.index) :
          k < l =>
              \E g, h \in 1..Len(counts_df.index) :
                  /\ g < h
                  /\ counts_filtered.index[k] = counts_df.index[g]
                  /\ counts_filtered.index[l] = counts_df.index[h]

Filtered == om_pc \in {"filtered", "corrected", "mapped", "evidence_written", "done"}

\* C9: a gene is kept if and only if its mean is >= 1.0 or the fraction of samples whose
\* value is not zero is >= 0.20; the filter removes rows only and keeps their order.
C9_KeepByMeanOrNonzero ==
    Filtered =>
        /\ \A g \in 1..Len(counts_df.index) :
              GeneKept(g) <=>
                  \/ MeanAtLeast(counts_df.values[g], 1, 1)
                  \/ 5 * NonzeroCount(counts_df.values[g]) >= Len(counts_df.columns)
        /\ RowsOnly

\* the same with the samples counted that the code counts, those above zero
FilterByPositive ==
    Filtered =>
        /\ \A g \in 1..Len(counts_df.index) :
              GeneKept(g) <=>
                  \/ MeanAtLeast(counts_df.values[g], 1, 1)
                  \/ 5 * PositiveCount(counts_df.values[g]) >= Len(counts_df.columns)
        /\ RowsOnly

\* C10: the two thresholds are taken from the configuration, 1.0 and 0.20 being the
\* defaults when it does not set them.
C10_ThresholdsFromConfig ==
    Filtered =>
        LET min_mean == Get(config.filter.min_mean, 1)
            min_fraction == Get(config.filter.min_nonzero_fraction, <<1, 5>>)
        IN  \A g \in 1..Len(counts_df.index) :
                GeneKept(g) <=>
                    \/ MeanAtLeast(counts_df.values[g], min_mean, 1)
                    \/ PositiveCount(counts_df.values[g]) * min_fraction[2]
                           >= min_fraction[1] * Len(counts_df.columns)

----------------------------------------------------------------------------
(* The per-gene test *)

TumorCols == ColumnsCoded(1, 9)
NormalCols == ColumnsCoded(10, 19)

\* the row of a gene in the input matrix
InputRow(gene) ==
    counts_file.values[CHOOSE g \in 1..Len(counts_file.index) : counts_file.index[g] = gene]

\* the columns of cols where the row has a value
Present(row, cols) == {k \in cols : row[k] # NaN}

RECURSIVE SumOver(_, _)
SumOver(row, cols) ==
    IF cols = {} THEN 0
    ELSE LET k == CHOOSE k \in cols : TRUE IN row[k] + SumOver(row, cols \ {k})

\* sample variance (ddof = 1) of the present values is zero: there are at least two
\* of them, without which it is undefined, and they are all equal
VarianceZero(row, cols) ==
    /\ Cardinality(Present(row, cols)) >= 2
    /\ \A i, j \in Present(row, cols) : row[i] = row[j]

C12_Log2fcAndDirection ==
    \A k \in 1..Len(results) :
        LET r == results[k]
            row == InputRow(r.gene)
            t == Present(row, TumorCols)
            n == Present(row, NormalCols)
            nt == Cardinality(t)
            nn == Cardinality(n)
            diff == SumOver(row, t) * nn - SumOver(row, n) * nt
        IN  /\ r.direction \in {"up", "down"}
            /\ r.log2fc.nan <=> (nt = 0 \/ nn = 0)
            /\ r.log2fc.nan => r.direction = "down"
            /\ ~r.log2fc.nan =>
                  /\ r.log2fc.den > 0
                  /\ r.log2fc.num * nt * nn = diff * r.log2fc.den
                  /\ r.direction = "up" <=> diff > 0

\* one gene up, and one gene with log2fc exactly 0, which is down
C12_Witness ==
    /\ Len(results) = 2
    /\ results[1].direction = "up" /\ results[1].log2fc.num > 0
    /\ results[2].direction = "down" /\ ~results[2].log2fc.nan /\ results[2].log2fc.num = 0

Tested == om_pc \in {"corrected", "mapped", "evidence_written", "done"}

\* one record per gene that survived the filter, in their order, each p_value a
\* number in [0, 1]
OneRecordPerSurvivor ==
    (Tested \/ (om_pc = "failed" /\ error.what \in {"p_value", "api"})) =>
        /\ Len(results) = Len(counts_filtered.index)
        /\ \A k \in 1..Len(results) :
              /\ results[k].gene = counts_filtered.index[k]
              /\ results[k].p_value \in 0..PDen

\* C13: with the matrix readable and at least 3 tumor and 3 normal samples the run
\* does not abort; every gene that survived the filter has exactly one record and
\* every p_value is a number in [0, 1].
C13_OnlyInputAndSamplesAbort ==
    (config.status = "ok" /\ counts_file.exists /\ TumorCount >= 3 /\ NormalCount >= 3) =>
        /\ om_pc # "failed"
        /\ OneRecordPerSurvivor

\* the same for the runs in which a gene survives the filter and the symbol lookup
\* does not time out
CompletesWithSurvivor ==
    (/\ config.status = "ok" /\ counts_file.exists /\ TumorCount >= 3 /\ NormalCount >= 3
     /\ \E g \in 1..Len(counts_file.index) : KeepGene(counts_file.values[g], Len(counts_file.columns))
     /\ symbol_service.api # "TimeoutError") =>
        /\ om_pc # "failed"
        /\ OneRecordPerSurvivor

----------------------------------------------------------------------------
(* The evidence file and the candidate list *)

\* the cap and the threshold in force: those of the configuration, else 500 and 0.05
Cap == IF config.candidates.top_n.set THEN config.candidates.top_n.val ELSE 500
Threshold ==
    IF config.candidates.fdr_threshold.set THEN config.candidates.fdr_threshold.val
    ELSE <<1, 20>>

\* fdr, a numerator over One, is a number strictly below the threshold
Significant(q) == q # NaN /\ q * Threshold[2] < Threshold[1] * One
AtThreshold(q) == q # NaN /\ q * Threshold[2] = Threshold[1] * One

\* the rows of the result frame that are significant
SigRows == {k \in 1..Len(results_df) : Significant(results_df[k].fdr)}

Candidates == candidates_file.rows
IsCandidate(gene) == \E c \in 1..Len(Candidates) : Candidates[c].gene = gene

\* C14: every candidate is a gene with fdr < threshold, no gene is a candidate
\* twice, and there are min(cap, number of genes with fdr < threshold) candidates.
C14_OnlySignificantUpToCap ==
    om_pc = "done" =>
        /\ \A c \in 1..Len(Candidates) :
              \E k \in SigRows : /\ results_df[k].gene = Candidates[c].gene
                                 /\ results_df[k].fdr = Candidates[c].fdr
        /\ \A c, d \in 1..Len(Candidates) : c # d => Candidates[c].gene # Candidates[d].gene
        /\ Len(Candidates) = (IF Cap < Cardinality(SigRows) THEN Cap ELSE Cardinality(SigRows))

\* a gene with fdr below the threshold is a candidate and a gene with fdr equal to the
\* threshold is not
C14_Witness ==
    /\ om_pc = "done"
    /\ Len(Candidates) = 1
    /\ \E k \in 1..Len(results_df) :
          AtThreshold(results_df[k].fdr) /\ ~IsCandidate(results_df[k].gene)

\* the size of |log2fc|, and of de_signal = |log2fc| * -log10(fdr + 1e-300) for
\* fdr < 1: a row has the greater de_signal when its |log2fc| is not zero and the
\* other's is, or when it has no smaller a |log2fc| and no greater an fdr, one of the
\* two strictly.  Rows that trade |log2fc| against fdr are not compared.
Size(x) == IF x.num < 0 THEN [num |-> 0 - x.num, den |-> x.den] ELSE [num |-> x.num, den |-> x.den]
Larger(a, b) == Size(a).num * Size(b).den > Size(b).num * Size(a).den
GreaterSignal(r1, r2) ==
    /\ ~r1.log2fc.nan /\ ~r2.log2fc.nan
    /\ r1.log2fc.num # 0
    /\ \/ r2.log2fc.num = 0
       \/ /\ ~Larger(r2.log2fc, r1.log2fc) /\ r1.fdr <= r2.fdr
          /\ Larger(r1.log2fc, r2.log2fc) \/ r1.fdr < r2.fdr
EqualSignal(r1, r2) ==
    /\ ~r1.log2fc.nan /\ ~r2.log2fc.nan
    /\ \/ r1.log2fc.num = 0 /\ r2.log2fc.num = 0
       \/ /\ ~Larger(r1.log2fc, r2.log2fc) /\ ~Larger(r2.log2fc, r1.log2fc)
          /\ r1.fdr = r2.fdr

\* C15: the candidates are written in descending de_signal with ranks 1, 2, ..., k in
\* that order, and no significant gene left out has a greater de_signal than a
\* candidate.
C15_LargestSignalRanked ==
    om_pc = "done" =>
        /\ \A c \in 1..Len(Candidates) : Candidates[c].rank = c
        /\ \A c, d \in 1..Len(Candidates) :
              c < d => ~GreaterSignal(Candidates[d], Candidates[c])
        /\ \A k \in SigRows :
              ~IsCandidate(results_df[k].gene) =>
                  \A c \in 1..Len(Candidates) : ~GreaterSignal(results_df[k], Candidates[c])

\* three significant genes in the matrix order middle, smallest, greatest de_signal:
\* the third is ranked 1, the first is ranked 2 and the second is left out
C15_Witness ==
    /\ om_pc = "done"
    /\ Len(counts_file.index) = 3 /\ Cardinality(SigRows) = 3
    /\ Len(Candidates) = 2
    /\ Candidates[1].gene = counts_file.index[3] /\ Candidates[1].rank = 1
    /\ Candidates[2].gene = counts_file.index[1] /\ Candidates[2].rank = 2
    /\ GreaterSignal(Candidates[1], Candidates[2])

\* the place of a gene in the expression matrix
InputPlace(gene) == CHOOSE g \in 1..Len(counts_file.index) : counts_file.index[g] = gene

\* C16: of two significant genes with equal de_signal the one that comes first in the
\* expression matrix is ranked first, and at the cut-off it is the one selected.
C16_TiesInInputOrder ==
    om_pc = "done" =>
        /\ \A c, d \in 1..Len(Candidates) :
              (c < d /\ EqualSignal(Candidates[c], Candidates[d])) =>
                  InputPlace(Candidates[c].gene) < InputPlace(Candidates[d].gene)
        /\ \A k \in SigRows :
              ~IsCandidate(results_df[k].gene) =>
                  \A c \in 1..Len(Candidates) :
                      EqualSignal(results_df[k], Candidates[c]) =>
                          InputPlace(Candidates[c].gene) < InputPlace(results_df[k].gene)

\* ties come out in the order of the frame they are selected from, the one sorted by fdr
TiesInFrameOrder ==
    om_pc = "done" =>
        LET place(gene) == CHOOSE k \in 1..Len(results_df) : results_df[k].gene = gene
        IN  /\ \A c, d \in 1..Len(Candidates) :
                  (c < d /\ EqualSignal(Candidates[c], Candidates[d])) =>
                      place(Candidates[c].gene) < place(Candidates[d].gene)
            /\ \A k \in SigRows :
                  ~IsCandidate(results_df[k].gene) =>
                      \A c \in 1..Len(Candidates) :
                          EqualSignal(results_df[k], Candidates[c]) =>
                              place(Candidates[c].gene) < k

PastSampleCheck ==
    config.status = "ok" /\ counts_file.exists /\ TumorCount >= 3 /\ NormalCount >= 3

\* C17: a run in which no gene has fdr below the threshold does not fail; it ends with
\* the evidence file written and a candidate file without rows.
C17_NoSignificantGeneIsNoError ==
    (PastSampleCheck /\ SigRows = {} /\ error.what # "api") =>
        /\ om_pc # "failed"
        /\ om_pc = "done" =>
              /\ candidates_file = WriteCsv(<<>>)
              /\ evidence_file.written /\ Len(evidence_file.rows) = Len(results)

\* the same for the runs in which a gene survives the filter
NoSignificantGeneWithSurvivor ==
    (/\ PastSampleCheck /\ SigRows = {} /\ error.what # "api"
     /\ \E g \in 1..Len(counts_file.index) :
           KeepGene(counts_file.values[g], Len(counts_file.columns))) =>
        /\ om_pc # "failed"
        /\ om_pc = "done" =>
              /\ candidates_file = WriteCsv(<<>>)
              /\ evidence_file.written /\ Len(evidence_file.rows) = Len(results)

\* C18: the evidence file has one row for each gene that survived the filter and no
\* other, and its rows are in ascending fdr.
C18_EvidenceSortedByFdr ==
    evidence_file.written =>
        LET rows == evidence_file.rows
        IN  /\ Len(rows) = Len(counts_filtered.index)
            /\ \A g \in 1..Len(counts_filtered.index) :
                  Cardinality({r \in 1..Len(rows) : rows[r].gene = counts_filtered.index[g]}) = 1
            /\ \A r \in 1..(Len(rows) - 1) :
                  /\ rows[r].fdr # NaN /\ rows[r + 1].fdr # NaN
                  /\ rows[r].fdr <= rows[r + 1].fdr

\* two genes written, the second of the matrix first because its fdr is the smaller
C18_Witness ==
    /\ evidence_file.written
    /\ Len(evidence_file.rows) = 2
    /\ evidence_file.rows[1].gene = counts_filtered.index[2]
    /\ evidence_file.rows[1].fdr < evidence_file.rows[2].fdr

----------------------------------------------------------------------------
(* Gene symbols *)

Mapped == om_pc \in {"mapped", "evidence_written", "done"}

\* a row without its gene_symbol column
Unmapped(row) == [f \in (DOMAIN row) \ {"gene_symbol"} |-> row[f]]

\* C19: when the symbols are added the p-values and the corrected values are those of
\* the finished statistics and stay so: the frame keeps its rows, their order and
\* every column but gene_symbol, and the frame handed to map_ensembl_to_symbols is
\* left without a gene_symbol column, the mapping enabled or not.
C19_MappingKeepsNumbers ==
    /\ om_pc = "mapped" =>
          /\ Len(results_df) = Len(results)
          /\ MatchesReference([k \in 1..Len(results) |-> results[k].p_value],
                              [k \in 1..Len(results_df) |-> results_df[k].fdr])
          /\ \A k \in 1..Len(results_df) :
                /\ "gene_symbol" \in DOMAIN results_df[k]
                /\ results_df[k].gene = results[k].gene
                /\ results_df[k].log2fc = results[k].log2fc
                /\ results_df[k].p_value = results[k].p_value
                /\ results_df[k].direction = results[k].direction
                /\ results_df[k].tumor_mean = results[k].tumor_mean
                /\ results_df[k].normal_mean = results[k].normal_mean
          /\ df_passed.called <=> config.use_api
          /\ df_passed.called =>
                /\ Len(df_passed.rows) = Len(results_df)
                /\ \A k \in 1..Len(results_df) :
                      /\ "gene_symbol" \notin DOMAIN df_passed.rows[k]
                      /\ df_passed.rows[k] = Unmapped(results_df[k])
    /\ om_pc \in {"start", "configured", "loaded", "labelled", "checked", "filtered"} =>
          ~df_passed.called

\* two genes mapped through map_ensembl_to_symbols, one given its symbol
C19_Witness ==
    /\ om_pc = "mapped"
    /\ df_passed.called
    /\ Len(results_df) = 2
    /\ results_df[1].gene_symbol # <<>>
    /\ results_df[1].fdr # results_df[2].fdr

\* the identifier up to its first '.'
BeforeDot(id) ==
    LET dots == {i \in 1..Len(id) : id[i] = "."}
    IN  IF dots = {} THEN id
        ELSE SubSeq(id, 1, (CHOOSE i \in dots : \A j \in dots : i <= j) - 1)

\* the symbol the lookup has for an identifier without version, '' when it has none:
\* that of the cache file, else that of the service when its answer arrives
KnownSymbol(key) ==
    IF symbol_service.cache_exists /\ key \in DOMAIN symbol_service.cache
    THEN symbol_service.cache[key]
    ELSE IF symbol_service.api = "answers" /\ key \in DOMAIN symbol_service.answer
    THEN symbol_service.answer[key]
    ELSE <<>>

SymbolsAsKnown ==
    Mapped =>
        \A k \in 1..Len(results_df) :
            results_df[k].gene_symbol =
                (IF config.use_api THEN KnownSymbol(BeforeDot(results_df[k].gene)) ELSE <<>>)

\* C20: the version suffix is stripped before the lookup, a gene the lookup has no
\* symbol for (unknown identifier, no cache file, failing request) gets the empty
\* string, and no failure of the lookup aborts the run.
C20_LookupFailureIsEmptySymbol ==
    /\ SymbolsAsKnown
    /\ om_pc = "failed" => error.what # "api"

\* the same when the request does not time out
LookupFailureCaught ==
    /\ SymbolsAsKnown
    /\ symbol_service.api # "TimeoutError" => (om_pc = "failed" => error.what # "api")

----------------------------------------------------------------------------
(* Order independence of the per-gene records *)

\* the records in the order pi
Reordered(pi) == [k \in 1..Len(results) |-> results[pi[k]]]

\* the row of the corrected frame that belongs to a gene
RowOfGene(gene) ==
    results_df[CHOOSE k \in 1..Len(results_df) : results_df[k].gene = gene]

\* every gene keeps its p_value and its fdr when the records come in the order pi
SameNumbers(pi) ==
    LET permuted == Reordered(pi)
    IN  \A q \in benjamini_hochberg([k \in 1..Len(permuted) |-> permuted[k].p_value]) :
            \A k \in 1..Len(permuted) :
                /\ permuted[k].p_value = RowOfGene(permuted[k].gene).p_value
                /\ q[k] = RowOfGene(permuted[k].gene).fdr

\* the candidate lists lines 263-284 can write from the records in the order pi
CandidateListsFrom(pi) ==
    LET permuted == Reordered(pi)
        frame == [k \in 1..Len(permuted) |-> RowOfGene(permuted[k].gene)]
        top_n == Get(config.candidates.top_n, DefaultTopN)
        fdr_threshold == Get(config.candidates.fdr_threshold, <<1, DefaultFdrInverse>>)
    IN  UNION {LET sig_genes == SignificantRows(sorted, fdr_threshold)
               IN  {CandidateRows(c) : c \in NLargest(sig_genes, Min2(top_n, Len(sig_genes)))} :
                   sorted \in SortedByFdr(frame)}

\* C21: for any permutation of the per-gene records each gene gets the same p_value
\* and fdr, and the candidate file holds the same genes with the same ranks.
C21_OrderIndependent ==
    om_pc = "done" =>
        \A pi \in Perms(Len(results)) :
            /\ SameNumbers(pi)
            /\ CandidateListsFrom(pi) = {candidates_file.rows}

\* the half of C21 about p_value and fdr
C21_NumbersOrderIndependent ==
    om_pc = "done" => \A pi \in Perms(Len(results)) : SameNumbers(pi)

\* no two significant genes of the run have equal de_signal, nor trade |log2fc|
\* against fdr
SignalsOrdered ==
    \A k, l \in SigRows :
        k # l => (GreaterSignal(results_df[k], results_df[l])
                  \/ GreaterSignal(results_df[l], results_df[k]))

\* C21 holds for the runs whose significant genes have distinct de_signal
C21_OrderIndependentWithoutTies ==
    (om_pc = "done" /\ SignalsOrdered) =>
        \A pi \in Perms(Len(results)) : CandidateListsFrom(pi) = {candidates_file.rows}

\* such a run with two candidates
C21_WithoutTiesReached ==
    om_pc = "done" /\ SignalsOrdered /\ Len(candidates_file.rows) >= 2

----------------------------------------------------------------------------
(* The order of the stages of one run *)

\* the place of a statement of run_omics in the order of the stages
StageRank(pc) ==
    CASE pc = "start" -> 0
      [] pc = "configured" -> 1
      [] pc = "loaded" -> 2
      [] pc = "labelled" -> 3          \* sample classification done
      [] pc = "checked" -> 4           \* sample-count guard passed
      [] pc = "filtered" -> 5          \* gene filter done; the per-gene tests run here
      [] pc = "corrected" -> 6         \* FDR correction done
      [] pc = "mapped" -> 7
      [] pc = "evidence_written" -> 8
      [] pc = "done" -> 9              \* candidate selection done
      [] OTHER -> 0 - 1

\* one step of a run: the statement advances by one stage or the run fails, each
\* stage writes its result in its own place, and the correction takes the p-values
\* of all surviving genes at once
StageStep ==
    /\ om_pc' # om_pc =>
          (om_pc' = "failed" \/ StageRank(om_pc') = StageRank(om_pc) + 1)
    /\ sample_labels' # sample_labels => (om_pc = "loaded" /\ om_pc' = "labelled")
    /\ counts_filtered' # counts_filtered => (om_pc = "checked" /\ om_pc' = "filtered")
    /\ results' # results =>
          /\ om_pc = "filtered" /\ om_pc' = "filtered"
          /\ Len(results) < Len(counts_filtered.index)
          /\ Len(results') = Len(results) + 1
          /\ results'[Len(results')].gene = counts_filtered.index[Len(results')]
          /\ \A k \in 1..Len(results) : results'[k] = results[k]
    /\ (om_pc = "filtered" /\ om_pc' # "filtered") =>
          /\ Len(results) = Len(counts_filtered.index)
          /\ om_pc' = "corrected" =>
                /\ Len(results_df') = Len(counts_filtered.index)
                /\ \A k \in 1..Len(results_df') :
                      /\ results_df'[k].gene = counts_filtered.index[k]
                      /\ results_df'[k].p_value = results[k].p_value
                /\ MatchesReference([k \in 1..Len(results) |-> results[k].p_value],
                                    [k \in 1..Len(results_df') |-> results_df'[k].fdr])
    /\ (results_df' # results_df /\ results_df = <<>>) => om_pc = "filtered"
    /\ candidates_file' # candidates_file =>
          (om_pc = "evidence_written" /\ om_pc' = "done")

\* C22: the stages run in the order classification, sample-count guard, gene filter,
\* per-gene tests, FDR correction, candidate selection, and the correction starts
\* only when every surviving gene has its record and is given all their p-values.
C22_StagesInOrderWithBarrier == [][StageStep]_vars

\* a completed run of two surviving genes, each corrected with n = 2
C22_Witness ==
    /\ om_pc = "done"
    /\ Len(counts_filtered.index) = 2 /\ Len(results) = 2 /\ Len(results_df) = 2
    /\ Len(sample_labels) > 0
    /\ \E k \in 1..2 : results_df[k].fdr # results_df[k].p_value * RankLcm

----------------------------------------------------------------------------
(* The retry loop's contract *)

\* the call is over
RtOver == rt_pc \in {"returned", "raised"}

\* the attempts made so far, all but the last of them failed with a caught error
EarlierAttemptsFailed ==
    \A k \in 1..(Len(requests) - 1) : Caught(outcomes[k])

RetrySafe ==
    \* at most 3 attempts, each but the last a failure
    /\ Len(requests) <= 3
    /\ EarlierAttemptsFailed
    \* 1 second after the first failed attempt, 3 after the second, none after the third
    /\ Len(slept) <= 2
    /\ \A k \in 1..Len(slept) : slept[k] = <<1, 3>>[k]
    /\ rt_pc \in {"request", "returned", "raised"} => Len(slept) = attempt
    /\ RtOver => Len(slept) = Len(requests) - 1
    \* the first success is what is returned
    /\ (rt_pc = "returned" /\ ~response.none) =>
          /\ outcomes[response.attempt + 1] = "ok"
          /\ Len(requests) = response.attempt + 1
    \* None exactly when all 3 attempts failed
    /\ (rt_pc = "returned" /\ response.none) =>
          (Len(requests) = 3 /\ \A k \in 1..3 : Caught(outcomes[k]))
    /\ (Len(requests) = 3 /\ RtOver /\ \A k \in 1..3 : Caught(outcomes[k])) =>
          (rt_pc = "returned" /\ response.none)
    \* what is raised is neither an HTTP nor a timeout error
    /\ rt_pc = "raised" => ~Caught(outcomes[Len(requests)]) /\ outcomes[Len(requests)] # "ok"

\* nothing is sent, slept or returned once the call is over
NothingAfterReturn == RtOver => UNCHANGED rtVars

\* C24: at most 3 attempts; the response of the first successful attempt is returned
\* and no attempt follows it; 1 second is slept after the first failed attempt, 3
\* after the second, nothing after the third; None is returned, and no HTTP or
\* timeout error raised, when all 3 fail; the call always ends.
C24_CappedBackoffTerminates ==
    /\ []RetrySafe
    /\ [][NothingAfterReturn]_vars
    /\ <>RtOver

\* three failures in a row: three requests, delays 1 and 3, None
C24_Witness ==
    /\ rt_pc = "returned" /\ response = None
    /\ Len(requests) = 3 /\ slept = <<1, 3>>
    /\ outcomes[1] = "TimeoutException" /\ outcomes[2] = "HTTPStatusError"

\* a success at the second attempt after one failure and one delay
C24_SecondAttemptReached ==
    /\ rt_pc = "returned" /\ response = Response(1)
    /\ Len(requests) = 2 /\ slept = <<1>> /\ outcomes[3] = "ok"

----------------------------------------------------------------------------
(* The web cache's contract *)

CachedKeys == {k \in CacheKeys : data_cache[k] # "unset"}

\* C26: after any sequence of requests the cache is empty or holds all three of
\* 'ranked', 'omics' and 'pathway'; a load that fails leaves nothing behind that a
\* later request takes for loaded data.
C26_CacheAllOrNothing == CachedKeys = {} \/ CachedKeys = CacheKeys

\* a partly filled cache is one that a failed read of an evidence file left: it holds
\* 'ranked' and lacks 'pathway'
C26_PartialOnlyAfterFailedRead ==
    (CachedKeys # {} /\ CachedKeys # CacheKeys) =>
        ("ranked" \in CachedKeys /\ "pathway" \notin CachedKeys)

\* the ranked file missing: the load fails with 503 and the cache stays empty
C26_MissingRankedLeavesEmpty ==
    (http_status = 503) => CachedKeys = {}

----------------------------------------------------------------------------
(* The scoring step's contract *)

AllEvidenceThere == evidence_file.exists /\ lit_file.exists /\ pathway_file.exists

\* a step of run_omics
OmicsStep == om_pc' # om_pc \/ results' # results

\* with an evidence file missing the existence check raises FileNotFoundError, the
\* ranked file is written only past a check that found all three, and a step of
\* run_omics leaves the literature, pathway and ranked files alone
ScoringStep ==
    /\ (sc_pc = "configured" /\ ~AllEvidenceThere /\ sc_pc' # sc_pc) =>
          /\ sc_pc' = "failed"
          /\ sc_error'.type = "FileNotFoundError"
          /\ ranked_file' = ranked_file
    /\ ranked_file' # ranked_file => (sc_pc = "checked" /\ AllEvidenceThere)
    /\ OmicsStep => UNCHANGED <<sc_pc, lit_file, pathway_file, ranked_file, sc_error>>

\* C23: when any of the omics, literature and pathway evidence files is missing
\* run_scoring raises a not-found error and writes no ranked output; run_omics does
\* not touch the literature and pathway evidence and runs to its end without them.
C23_MissingEvidenceIsHardFailure ==
    /\ [](sc_pc \in {"checked", "done"} => AllEvidenceThere)
    /\ []((sc_pc = "failed" /\ config.status = "ok") =>
              (sc_error.type = "FileNotFoundError" /\ ~ranked_file.written))
    /\ [](ranked_file.written => AllEvidenceThere)
    /\ [][ScoringStep]_vars

\* run_omics has completed with neither literature nor pathway evidence, and
\* run_scoring, called after it, has failed on their absence without a ranked file
C23_Witness ==
    /\ om_pc = "done" /\ evidence_file.written
    /\ ~lit_file.exists /\ ~pathway_file.exists
    /\ sc_pc = "failed" /\ sc_error = MissingUpstream(<<"lit_evidence.csv", "pathway_evidence.csv">>)
    /\ ~ranked_file.exists

\* all three files there: the ranked file is written
C23_RankedWritten ==
    /\ sc_pc = "done" /\ ranked_file.written /\ Len(ranked_file.rows) = 2

============================================================================
